---- MODULE Spec2Model ----
(***************************************************************************)
(* StampDB storage engine: block codec, segment ring with header-last      *)
(* publish, recovery, zone-map iterator, latest query and A/B snapshot     *)
(* metadata, modelled from src/src/*.c and src/sim/flash.c.                *)
(*                                                                         *)
(* Representation choices (they apply to the whole module):                *)
(*  - a uint32_t timestamp is a pair <<hi, lo>> of 16-bit halves, so that  *)
(*    all arithmetic is exact modulo 2^32 (TLC integers are 32-bit);       *)
(*  - a float sample value is an integer; bias is kept as 2*bias           *)
(*    (max+min) and scale as 65535*scale (max-min), so that quantisation   *)
(*    is exact rational arithmetic (float rounding is not modelled);       *)
(*  - crc32c is collision free: the digest of a byte string is the string; *)
(*  - the page geometry is scaled down (see the bounds below): a segment   *)
(*    has STAMPDB_DATA_PAGES_PER_SEG data pages followed by one footer     *)
(*    page, a payload has STAMPDB_PAYLOAD_BYTES bytes.                     *)
(***************************************************************************)
EXTENDS Integers, Sequences, FiniteSets, TLC

\* ------------------------------------------------------------------------
\* Bounds of the model (scaled geometry and run length)
\* ------------------------------------------------------------------------
\* number of ring segments N (real: (flash_size - 32768) / 4096)
SEG_COUNT == 2
\* data pages per segment (real: 15)
STAMPDB_DATA_PAGES_PER_SEG == 2
\* payload bytes per block (real: 224)
STAMPDB_PAYLOAD_BYTES == 9
\* number of stampdb_write calls in one run
MaxWrites == 5
\* number of injected faults (power cuts, I/O errors, external corruptions)
MaxFaults == 1
\* number of stampdb_open calls in one run
MaxOpens == 2
\* number of stampdb_snapshot_save calls in one run
MaxSnapshots == 2
\* number of payload CRC errors one run may count
MaxCrcErrors == 2
\* number of writes, faults, opens and snapshot saves of one run, together
MaxEvents == 7

\* ------------------------------------------------------------------------
\* Program constants
\* ------------------------------------------------------------------------
STAMPDB_PAGE_BYTES == 256
STAMPDB_PAGES_PER_SEG == STAMPDB_DATA_PAGES_PER_SEG + 1
STAMPDB_SEG_BYTES == STAMPDB_PAGES_PER_SEG * STAMPDB_PAGE_BYTES
\* rows per block: the literal 74 of the source is 224 div 3
MAX_ROWS == STAMPDB_PAYLOAD_BYTES \div 3
STAMPDB_MAX_SERIES == 256
STAMPDB_OK == 0
STAMPDB_EINVAL == 1
STAMPDB_EBUSY == 2
STAMPDB_EIO == 5

\* a local variable of the source: F applied to the value x
Bind(x, F(_)) == F(x)

\* ------------------------------------------------------------------------
\* uint32_t arithmetic on <<hi, lo>> pairs
\* ------------------------------------------------------------------------
W16 == 2^16
U32(hi, lo) == <<hi, lo>>
U32_ZERO == <<0, 0>>
U32_MAX == <<W16 - 1, W16 - 1>>
\* 0x80000000
U32_HALF == <<2^15, 0>>

u32_add(a, b) ==
  LET lo == a[2] + b[2]
      hi == a[1] + b[1] + (lo \div W16)
  IN  <<hi % W16, lo % W16>>

u32_sub(a, b) ==
  LET borrow == IF a[2] < b[2] THEN 1 ELSE 0
      lo == a[2] - b[2] + W16
      hi == a[1] - b[1] - borrow + W16
  IN  <<hi % W16, lo % W16>>

u32_lt(a, b) == a[1] < b[1] \/ (a[1] = b[1] /\ a[2] < b[2])
u32_gt(a, b) == u32_lt(b, a)
u32_le(a, b) == ~u32_lt(b, a)

\* wrap-aware ordering of timestamps
ts_le(a, b) == u32_lt(u32_sub(b, a), U32_HALF)
ts_ge(a, b) == ts_le(b, a)
ts_in_range(t, t0, t1) ==
  IF ts_le(t0, t1) THEN ts_le(t0, t) /\ ts_le(t, t1)
  ELSE ts_le(t0, t) \/ ts_le(t, t1)

\* ------------------------------------------------------------------------
\* Bytes, NOR programming, CRC
\* ------------------------------------------------------------------------
RECURSIVE BitAnd(_, _)
BitAnd(a, b) ==
  IF a = 0 \/ b = 0 THEN 0
  ELSE (a % 2) * (b % 2) + 2 * BitAnd(a \div 2, b \div 2)

ErasedBytes == [i \in 1..STAMPDB_PAYLOAD_BYTES |-> 255]

\* collision-free digest
crc32c(data) == <<"crc32c", data>>

\* value read back from a location past the end of the payload buffer
UNDEF_Q == 2^17

\* ------------------------------------------------------------------------
\* Codec (src/src/codec.c)
\* ------------------------------------------------------------------------
DeltaWidth(dt_bits) == IF dt_bits = 8 THEN 1 ELSE 2

\* the bytes codec_encode_payload writes through dst224: `used` encoded bytes,
\* then 0xFF up to STAMPDB_PAYLOAD_BYTES; longer than the buffer when the
\* encoding does not fit
codec_encode_payload(dt_bits, ts_deltas, qvals, count) ==
  LET dw == DeltaWidth(dt_bits)
      used == count * dw + count * 2
      len == IF used > STAMPDB_PAYLOAD_BYTES THEN used ELSE STAMPDB_PAYLOAD_BYTES
      byteAt(k) ==
        IF k < count * dw
        THEN LET d == ts_deltas[(k \div dw) + 1][2]
             IN  IF dw = 1 THEN d % 256
                 ELSE IF k % 2 = 0 THEN d % 256 ELSE d \div 256
        ELSE IF k < used
        THEN LET j == (k - count * dw) \div 2
                 u == (qvals[j + 1] + W16) % W16
             IN  IF (k - count * dw) % 2 = 0 THEN u % 256 ELSE u \div 256
        ELSE 255
  IN  [i \in 1..len |-> byteAt(i - 1)]

\* byte k (0-based) of a payload buffer; a read past its end is undefined
ByteAt(src, k) == IF k < Len(src) THEN src[k + 1] ELSE -1

codec_decode_payload_Unsigned(src, dt_bits, count) ==
  [deltas |-> [i \in 1..count |->
                 IF dt_bits = 8 THEN U32(0, ByteAt(src, i - 1))
                 ELSE U32(0, ByteAt(src, 2 * (i - 1)) + 256 * ByteAt(src, 2 * i - 1))],
   qvals  |-> [j \in 1..count |->
                 ByteAt(src, count * DeltaWidth(dt_bits) + 2 * (j - 1))
                   + 256 * ByteAt(src, count * DeltaWidth(dt_bits) + 2 * j - 1)]]
codec_decode_payload(src, dt_bits, count) ==
  LET dw == DeltaWidth(dt_bits)
      delta(i) ==
        IF dw = 1 THEN U32(0, ByteAt(src, i))
        ELSE U32(0, ByteAt(src, 2 * i) + 256 * ByteAt(src, 2 * i + 1))
      qval(j) ==
        LET k == count * dw + 2 * j
            lo == ByteAt(src, k)
            hi == ByteAt(src, k + 1)
            u == lo + 256 * hi
        IN  IF lo < 0 \/ hi < 0 THEN UNDEF_Q
            ELSE IF u >= 2^15 THEN u - W16 ELSE u
  IN  [deltas |-> [i \in 1..count |-> delta(i - 1)],
       qvals  |-> [j \in 1..count |-> qval(j - 1)]]

\* block header (block_header_t); header_crc is implied by the page model:
\* a header area of kind "hdr" is one whose magic and CRC verify
NoHeader ==
  [series |-> 0, count |-> 0, t0_ms |-> U32_ZERO, dt_bits |-> 0,
   bias2 |-> 0, span |-> 0, payload_crc |-> crc32c(<<>>)]

\* segment footer (seg_footer_t); a payload area of kind "foot" is one whose
\* magic and CRC verify
NoFooter ==
  [seg_seqno |-> 0, t_min |-> U32_ZERO, t_max |-> U32_ZERO,
   block_count |-> 0, series_bitmap |-> {}]

\* ------------------------------------------------------------------------
\* Flash pages (src/sim/flash.c)
\* ------------------------------------------------------------------------
\* A page is its payload area (bytes 0..223) and its header area (224..255).
\*   payload area: "bytes" (block payload bytes, all 0xFF when erased),
\*                 "foot" (a footer record whose CRC verifies),
\*                 "bad"  (anything else);
\*   header area:  "ff" (erased), "hdr" (a packed header whose CRC verifies),
\*                 "torn" (a header whose programming was cut short),
\*                 "bad"  (anything else).
PayBytes(b) == [k |-> "bytes", b |-> b, f |-> NoFooter]
PayFoot(f) == [k |-> "foot", b |-> <<>>, f |-> f]
PayBad == [k |-> "bad", b |-> <<>>, f |-> NoFooter]
PayErased == PayBytes(ErasedBytes)
HdrFF == [k |-> "ff", h |-> NoHeader]
HdrOf(h) == [k |-> "hdr", h |-> h]
HdrTorn(h) == [k |-> "torn", h |-> h]
HdrBad == [k |-> "bad", h |-> NoHeader]
ErasedPage == [pay |-> PayErased, hdr |-> HdrFF]

\* the flash of a ring of n segments: ring pages, then the reserved region
\* above the ring, scaled to one sector (real: STAMPDB_META_RESERVED, 32 KiB)
STAMPDB_META_RESERVED == STAMPDB_SEG_BYTES
FlashPagesOf(n) == (n + 1) * STAMPDB_PAGES_PER_SEG
FlashPages == FlashPagesOf(SEG_COUNT)
PageOf(addr) == addr \div STAMPDB_PAGE_BYTES

\* sim_flash_size_bytes; the pages of a flash are 0 .. size/256 - 1
sim_flash_size_bytes(flash) == Cardinality(DOMAIN flash) * STAMPDB_PAGE_BYTES

\* bitwise AND of the old content with the programmed image, per area
PayAnd(old, img) ==
  IF old = PayErased THEN img
  ELSE IF img = PayErased THEN old
  ELSE IF old.k = "bytes" /\ img.k = "bytes"
  THEN PayBytes([i \in 1..STAMPDB_PAYLOAD_BYTES |-> BitAnd(old.b[i], img.b[i])])
  ELSE IF old = img THEN old
  ELSE PayBad

HdrAnd(old, img) ==
  IF old.k = "ff" THEN img
  ELSE IF img.k = "ff" THEN old
  ELSE IF old = img THEN old
  ELSE IF old.k = "torn" /\ img.k = "hdr" /\ old.h = img.h THEN img
  ELSE IF old.k = "hdr" /\ img.k = "torn" /\ old.h = img.h THEN old
  ELSE HdrBad

\* sim_flash_program_256: [rc, flash]
sim_flash_program_256(flash, addr, img) ==
  IF addr % STAMPDB_PAGE_BYTES # 0 \/ PageOf(addr) \notin DOMAIN flash
  THEN [rc |-> -1, flash |-> flash]
  ELSE LET old == flash[PageOf(addr)]
       IN  [rc |-> 0,
            flash |-> [flash EXCEPT ![PageOf(addr)] =
                         [pay |-> PayAnd(old.pay, img.pay),
                          hdr |-> HdrAnd(old.hdr, img.hdr)]]]

\* sim_flash_erase_4k: [rc, flash]
sim_flash_erase_4k(flash, addr) ==
  IF addr % STAMPDB_SEG_BYTES # 0
     \/ PageOf(addr + STAMPDB_SEG_BYTES - STAMPDB_PAGE_BYTES) \notin DOMAIN flash
  THEN [rc |-> -1, flash |-> flash]
  ELSE [rc |-> 0,
        flash |-> [p \in DOMAIN flash |->
                     IF p \div STAMPDB_PAGES_PER_SEG = addr \div STAMPDB_SEG_BYTES
                     THEN ErasedPage ELSE flash[p]]]

\* sim_flash_read of one page succeeds
ReadOk(flash, addr) ==
  PageOf(addr + STAMPDB_PAGE_BYTES - 1) \in DOMAIN flash

\* codec_unpack_header on the header area of a page
codec_unpack_header(hdr) == [ok |-> hdr.k = "hdr", h |-> hdr.h]
codec_pack_header(h) == HdrOf(h)

\* ------------------------------------------------------------------------
\* Ring: footer and block I/O (src/src/ring.c)
\* ------------------------------------------------------------------------
\* align_down without the rounding (a mutation of align_down)
align_down_None(x, a) == x
align_down(x, a) == x - (x % a)

FooterAddr(seg_base) == seg_base + (STAMPDB_PAGES_PER_SEG - 1) * STAMPDB_PAGE_BYTES

\* read_footer: [rc, f]
read_footer(flash, seg_base) ==
  IF ~ReadOk(flash, FooterAddr(seg_base)) THEN [rc |-> -1, f |-> NoFooter]
  ELSE LET page == flash[PageOf(FooterAddr(seg_base))]
       IN  IF page.pay.k = "foot" THEN [rc |-> 0, f |-> page.pay.f]
           ELSE [rc |-> -1, f |-> NoFooter]

\* write_footer: [rc, flash]
write_footer(flash, seg_base, footer) ==
  sim_flash_program_256(flash, FooterAddr(seg_base),
                        [pay |-> PayFoot(footer), hdr |-> HdrFF])

\* the payload CRC stored in header h matches the payload area
PayloadCrcOk(pay, h) == pay.k = "bytes" /\ crc32c(pay.b) = h.payload_crc

\* read_block: [r, h, payload]; r = 0 OK, -1 header error, -2 payload CRC error
read_block(flash, page_addr) ==
  IF ~ReadOk(flash, page_addr) THEN [r |-> -1, h |-> NoHeader, payload |-> <<>>]
  ELSE LET page == flash[PageOf(page_addr)]
           u == codec_unpack_header(page.hdr)
       IN  IF ~u.ok THEN [r |-> -1, h |-> NoHeader, payload |-> <<>>]
           ELSE IF ~PayloadCrcOk(page.pay, u.h)
           THEN [r |-> -2, h |-> u.h, payload |-> page.pay.b]
           ELSE [r |-> 0, h |-> u.h, payload |-> page.pay.b]

\* last timestamp of a block: t0 plus the wrapping sum of the stored deltas
RECURSIVE SumDeltas(_, _, _, _)
SumDeltas(t, payload, dw, n) ==
  IF n = 0 THEN t
  ELSE LET k == n - 1
           d == IF dw = 1 THEN ByteAt(payload, k)
                ELSE ByteAt(payload, 2 * k) + 256 * ByteAt(payload, 2 * k + 1)
       IN  u32_add(SumDeltas(t, payload, dw, n - 1), U32(0, d))

LastT(h, payload) == SumDeltas(h.t0_ms, payload, DeltaWidth(h.dt_bits), h.count)

\* the scan loop shared by the seal and by recovery of a footerless ring:
\* pages p.. of the segment at base are aggregated into acc until one fails
RECURSIVE ScanPages(_, _, _, _)
ScanPages(flash, base, p, acc) ==
  IF p >= STAMPDB_DATA_PAGES_PER_SEG THEN acc
  ELSE
    Bind(read_block(flash, base + p * STAMPDB_PAGE_BYTES), LAMBDA rb :
      IF rb.r # 0 THEN acc
      ELSE
        Bind(LastT(rb.h, rb.payload), LAMBDA last_t :
          ScanPages(flash, base, p + 1,
            [acc EXCEPT
               !.t_min = IF u32_lt(rb.h.t0_ms, @) THEN rb.h.t0_ms ELSE @,
               !.t_max = IF u32_gt(last_t, @) THEN last_t ELSE @,
               !.block_count = @ + 1,
               !.series_bitmap = @ \cup {rb.h.series}])))

\* ------------------------------------------------------------------------
\* Engine state (stampdb_state_t) and the world the handlers run in
\* ------------------------------------------------------------------------
Segs == 0..(SEG_COUNT - 1)
\* the indices of the zone map of an engine state
SegsOf(s) == 0..(s.seg_count - 1)

\* seg_summary_t with every byte zero
ZeroSummary ==
  [valid |-> FALSE, addr_first |-> 0, seg_seqno |-> 0, t_min |-> U32_ZERO,
   t_max |-> U32_ZERO, block_count |-> 0, series_bitmap |-> {}]

\* stampdb_state_t after memset(inst, 0, sizeof(*inst)); the zone-map array
\* lies behind the struct in the workspace and is not cleared
ZeroState(segs) ==
  [head |-> [addr |-> 0, page_index |-> 0, seg_seqno |-> 0],
   tail_seqno |-> 0, segs |-> segs, seg_count |-> 0,
   cur_series |-> 0, cur_t0 |-> U32_ZERO, cur_dt_bits |-> 0,
   cur_min |-> 0, cur_max |-> 0, cur_count |-> 0,
   last_ts |-> U32_ZERO, last_hint_ms |-> 0, last_ts_observed |-> U32_ZERO,
   blocks_written |-> 0, crc_errors |-> 0, epoch_id |-> 0,
   gc_warn_events |-> 0, gc_busy_events |-> 0, recovery_truncations |-> 0,
   stg_deltas |-> <<>>, stg_vals |-> <<>>]

\* metadata records (src/src/meta_lfs.c, host files)
NoSnap == [epoch_id |-> 0, seg_seq_head |-> 0, seg_seq_tail |-> 0, head_addr |-> 0]
SlotNone == [k |-> "none", snap |-> NoSnap]
SlotOf(snap) == [k |-> "valid", snap |-> snap]
HintNone == [k |-> "none", addr |-> 0, seq |-> 0]

\* fault injected into the next ring_write_block of a call:
\*   "io"   program primitive number `at` returns non-zero, flash unchanged
\*   "cut"  power is lost just before program primitive number `at`; at = 3
\*          is just after the header program, before any RAM is updated
\*   "tear" power is lost during the header program (primitive 2)
NoFault == [kind |-> "none", at |-> 0]
Faults ==
  {[kind |-> "io", at |-> 1], [kind |-> "io", at |-> 2],
   [kind |-> "cut", at |-> 1], [kind |-> "cut", at |-> 2],
   [kind |-> "cut", at |-> 3], [kind |-> "tear", at |-> 2]}

\* ghost: what the writer asked the ring to publish on a page
NoGhost == [series |-> 0, rows |-> <<>>]

\* ghost bookkeeping of an erase: the blocks of that sector are reclaimed
GhostErase(W, addr) ==
  LET gone == {p \in DOMAIN W.g_pages :
                 p \div STAMPDB_PAGES_PER_SEG = addr \div STAMPDB_SEG_BYTES}
  IN  [W EXCEPT !.g_pages = [p \in DOMAIN W.g_pages |->
                               IF p \in gone THEN NoGhost ELSE W.g_pages[p]],
                !.g_flushed = @ \ gone]

\* ghost: the times of the latest erases, the three most recent are kept
LogErase(log, t) == IF Len(log) < 3 THEN log \o <<t>> ELSE Tail(log) \o <<t>>

\* platform_flash_erase_4k on the world (return code unused by every caller)
platform_flash_erase_4k(W, addr) ==
  Bind(sim_flash_erase_4k(W.flash, addr), LAMBDA r :
    IF r.rc # 0 THEN W
    ELSE [GhostErase(W, addr) EXCEPT !.flash = r.flash,
                                     !.g_erases = LogErase(@, W.now)])

meta_save_head_hint(W, addr, seq) ==
  [W EXCEPT !.hint = [k |-> "valid", addr |-> addr, seq |-> seq]]

\* ------------------------------------------------------------------------
\* ring_finalize_segment_and_rotate (src/src/ring.c)
\* ------------------------------------------------------------------------
EmptyAgg ==
  [t_min |-> U32_MAX, t_max |-> U32_ZERO, block_count |-> 0, series_bitmap |-> {}]

\* the footer built from the aggregate of the segment scan
FooterOf_NoBitmap(seqno, agg) ==
  [seg_seqno |-> seqno, t_min |-> agg.t_min, t_max |-> agg.t_max,
   block_count |-> agg.block_count, series_bitmap |-> {}]
FooterOf(seqno, agg) ==
  [seg_seqno |-> seqno, t_min |-> agg.t_min, t_max |-> agg.t_max,
   block_count |-> agg.block_count, series_bitmap |-> agg.series_bitmap]

\* zone-map entry of a segment that was just erased for the head
FreshSummary(base, seqno) ==
  [valid |-> TRUE, addr_first |-> base, seg_seqno |-> seqno,
   t_min |-> U32_MAX, t_max |-> U32_ZERO, block_count |-> 0, series_bitmap |-> {}]

ring_finalize_segment_and_rotate(W) ==
  Bind(align_down(W.s.head.addr, STAMPDB_SEG_BYTES), LAMBDA base :
  Bind((base + STAMPDB_SEG_BYTES) % (W.s.seg_count * STAMPDB_SEG_BYTES), LAMBDA next_base :
  Bind(platform_flash_erase_4k(
         [W EXCEPT !.flash =
            write_footer(W.flash, base,
                         FooterOf(W.s.head.seg_seqno,
                                  ScanPages(W.flash, base, 0, EmptyAgg))).flash],
         next_base), LAMBDA W2 :
    [W2 EXCEPT
       !.s.head = [addr |-> next_base, page_index |-> 0,
                   seg_seqno |-> W.s.head.seg_seqno + 1],
       !.s.segs[next_base \div STAMPDB_SEG_BYTES] =
          FreshSummary(next_base, W.s.head.seg_seqno + 1)])))

\* ------------------------------------------------------------------------
\* ring_write_block (src/src/ring.c)
\* ------------------------------------------------------------------------
\* step 4 of ring_write_block: the zone-map entry of the written segment; an
\* entry that was not valid keeps the t_min, t_max, block_count and bitmap
\* the memory held
ZoneUpdate(sm0, seg_idx, head_seqno, h, last_t) ==
  Bind(IF ~sm0.valid
       THEN [sm0 EXCEPT !.valid = TRUE, !.seg_seqno = head_seqno,
                        !.addr_first = seg_idx * STAMPDB_SEG_BYTES]
       ELSE sm0, LAMBDA sm1 :
    [sm1 EXCEPT
       !.t_min = IF u32_lt(h.t0_ms, @) THEN h.t0_ms ELSE @,
       !.t_max = IF u32_gt(last_t, @) THEN last_t ELSE @,
       !.block_count = @ + 1,
       !.series_bitmap = @ \cup {h.series}])

\* steps 3.. of ring_write_block, after both program steps returned 0
RingAfterPublish(W, h, payload, page_addr) ==
  Bind([W EXCEPT
          !.s.blocks_written = @ + 1,
          !.s.head.page_index = @ + 1,
          !.s.head.addr = @ + STAMPDB_PAGE_BYTES,
          !.s.segs[page_addr \div STAMPDB_SEG_BYTES] =
             ZoneUpdate(@, page_addr \div STAMPDB_SEG_BYTES, W.s.head.seg_seqno, h,
                        LastT(h, payload)),
          \* ghost: the page now holds the builder's rows
          !.g_pages[PageOf(page_addr)] = [series |-> h.series, rows |-> W.g_cur]],
       LAMBDA W1 :
  Bind(IF W1.s.head.page_index >= STAMPDB_DATA_PAGES_PER_SEG
       THEN ring_finalize_segment_and_rotate(W1) ELSE W1, LAMBDA W2 :
    IF (W2.s.blocks_written % 64) = 0 \/ (W2.now - W2.s.last_hint_ms) >= 2000
    THEN [meta_save_head_hint(W2, W2.s.head.addr, W2.s.head.seg_seqno)
            EXCEPT !.s.last_hint_ms = W2.now, !.rwb = 0]
    ELSE [W2 EXCEPT !.rwb = 0]))

\* step 2 of ring_write_block: the header program, on the flash left by step 1
RingHeaderStep(Wn, ft, h, payload, page_addr, flash1) ==
  IF ft.kind = "cut" /\ ft.at = 2
  THEN [Wn EXCEPT !.flash = flash1, !.dead = TRUE, !.g_cut = PageOf(page_addr)]
  ELSE IF ft.kind = "tear"
  THEN [Wn EXCEPT
          !.flash = sim_flash_program_256(flash1, page_addr,
                      [pay |-> PayErased, hdr |-> HdrTorn(h)]).flash,
          !.dead = TRUE, !.g_cut = PageOf(page_addr)]
  ELSE Bind(sim_flash_program_256(flash1, page_addr,
              [pay |-> PayErased, hdr |-> codec_pack_header(h)]), LAMBDA r2 :
         IF (ft.kind = "io" /\ ft.at = 2) \/ r2.rc # 0
         THEN [Wn EXCEPT !.flash = flash1, !.ioerr = TRUE, !.rwb = -2]
         ELSE IF ft.kind = "cut" /\ ft.at = 3
         THEN [Wn EXCEPT
                 !.flash = r2.flash, !.dead = TRUE, !.g_cut = PageOf(page_addr),
                 !.g_pages[PageOf(page_addr)] = [series |-> h.series, rows |-> Wn.g_cur]]
         ELSE RingAfterPublish([Wn EXCEPT !.flash = r2.flash], h, payload, page_addr))

ring_write_block(W, h, payload) ==
  IF W.dead THEN W
  ELSE
    Bind([W EXCEPT !.fault = NoFault], LAMBDA Wn :
    Bind(sim_flash_program_256(W.flash, W.s.head.addr,
           [pay |-> PayBytes(payload), hdr |-> HdrFF]), LAMBDA r1 :
      \* step 1: the payload program
      IF W.fault.kind = "cut" /\ W.fault.at = 1
      THEN [Wn EXCEPT !.dead = TRUE, !.g_cut = PageOf(W.s.head.addr)]
      ELSE IF (W.fault.kind = "io" /\ W.fault.at = 1) \/ r1.rc # 0
      THEN [Wn EXCEPT !.ioerr = TRUE, !.rwb = -1]
      ELSE RingHeaderStep(Wn, W.fault, h, payload, W.s.head.addr, r1.flash)))

\* ------------------------------------------------------------------------
\* ring_gc_reclaim_if_needed (src/src/ring.c)
\* ------------------------------------------------------------------------
UsedSegs(s) == {i \in SegsOf(s) : s.segs[i].valid /\ s.segs[i].block_count > 0}

\* index of the used segment with the smallest sequence number (first wins);
\* 0 when none is used
OldestIdx_Newest(s) ==
  IF UsedSegs(s) = {} THEN 0
  ELSE CHOOSE i \in UsedSegs(s) :
         \A j \in UsedSegs(s) : s.segs[i].seg_seqno >= s.segs[j].seg_seqno
OldestIdx(s) ==
  IF UsedSegs(s) = {} THEN 0
  ELSE CHOOSE i \in UsedSegs(s) :
         \A j \in UsedSegs(s) : s.segs[i].seg_seqno < s.segs[j].seg_seqno
                                \/ (s.segs[i].seg_seqno = s.segs[j].seg_seqno /\ i <= j)

\* the erase of the oldest segment at time now2 in the quota window gc2
GcReclaim(W1, gc2, now2, oldest_idx) ==
  [platform_flash_erase_4k([W1 EXCEPT !.now = now2], oldest_idx * STAMPDB_SEG_BYTES)
     EXCEPT
       !.s.segs[oldest_idx].t_min = U32_MAX,
       !.s.segs[oldest_idx].t_max = U32_ZERO,
       !.s.segs[oldest_idx].block_count = 0,
       !.s.segs[oldest_idx].series_bitmap = {},
       !.gc = [gc2 EXCEPT !.erased_in_window = @ + 1],
       \* ghost: the segment this pass reclaimed
       !.g_reclaimed = oldest_idx]

\* the quota of ring_gc_reclaim_if_needed: EBUSY when non_blocking, else a
\* busy wait that returns once the clock reaches the next window
GcQuota(W1, gc1, non_blocking) ==
  IF gc1.erased_in_window >= 2 /\ non_blocking
  THEN [W1 EXCEPT !.gc = gc1, !.s.gc_busy_events = @ + 1, !.gc_rc = STAMPDB_EBUSY]
  ELSE IF gc1.erased_in_window >= 2
  THEN Bind(IF W1.now - gc1.window_start < 1000 THEN gc1.window_start + 1000
            ELSE W1.now, LAMBDA now2 :
         GcReclaim(W1, [window_start |-> now2, erased_in_window |-> 0], now2,
                   OldestIdx(W1.s)))
  ELSE GcReclaim(W1, gc1, W1.now, OldestIdx(W1.s))

\* the watermark test: fewer than pct percent of the seg_count segments free
Watermark_AlwaysBusy(free, pct, seg_count) == free * 100 < 5 * seg_count
Watermark(free, pct, seg_count) == free * 100 < pct * seg_count

ring_gc_reclaim_if_needed(W, non_blocking) ==
  Bind(W.s.seg_count - Cardinality(UsedSegs(W.s)), LAMBDA free :
    IF ~Watermark(free, 10, W.s.seg_count) THEN [W EXCEPT !.gc_rc = 0]
    ELSE GcQuota([W EXCEPT
                    !.s.gc_warn_events = @ + 1,
                    !.s.gc_busy_events =
                      IF Watermark(free, 5, W.s.seg_count) THEN @ + 1 ELSE @,
                    !.gc_rc = 0],
                 IF W.now - W.gc.window_start >= 1000
                 THEN [window_start |-> W.now, erased_in_window |-> 0]
                 ELSE W.gc,
                 non_blocking))

\* ------------------------------------------------------------------------
\* Metadata (src/src/meta_lfs.c, host build)
\* ------------------------------------------------------------------------
\* meta_load_snapshot: [rc, snap]
meta_load_snapshot_Smaller(W) ==
  IF W.snap_a.k # "valid" /\ W.snap_b.k # "valid" THEN [rc |-> -1, snap |-> NoSnap]
  ELSE IF W.snap_b.k # "valid"
          \/ (W.snap_a.k = "valid"
              /\ W.snap_a.snap.seg_seq_head <= W.snap_b.snap.seg_seq_head)
  THEN [rc |-> 0, snap |-> W.snap_a.snap]
  ELSE [rc |-> 0, snap |-> W.snap_b.snap]
meta_load_snapshot(W) ==
  IF W.snap_a.k # "valid" /\ W.snap_b.k # "valid" THEN [rc |-> -1, snap |-> NoSnap]
  ELSE IF W.snap_b.k # "valid"
          \/ (W.snap_a.k = "valid"
              /\ W.snap_a.snap.seg_seq_head >= W.snap_b.snap.seg_seq_head)
  THEN [rc |-> 0, snap |-> W.snap_a.snap]
  ELSE [rc |-> 0, snap |-> W.snap_b.snap]

\* meta_save_snapshot that always writes slot A (a mutation of
\* meta_save_snapshot)
meta_save_snapshot_AlwaysA(W, snap) == [W EXCEPT !.snap_a = SlotOf(snap)]
meta_save_snapshot(W, snap) ==
  IF snap.seg_seq_head % 2 = 1
  THEN [W EXCEPT !.snap_a = SlotOf(snap)]
  ELSE [W EXCEPT !.snap_b = SlotOf(snap)]

\* the file of a slot when power is lost inside the save of `snap` over it:
\*   "tmp"      while the temporary file is written: the slot is as it was
\*   "removed"  LittleFS build only, between lfs_remove(name) and
\*              lfs_rename(tmp, name): the slot has no file
\*   "renamed"  after the rename: the slot holds the new record
SlotCut(old, snap, cut) ==
  CASE cut = "tmp" -> old
    [] cut = "removed" -> SlotNone
    [] cut = "renamed" -> SlotOf(snap)

\* meta_save_snapshot interrupted by a power cut
meta_save_snapshot_cut(W, snap, cut) ==
  IF snap.seg_seq_head % 2 = 1
  THEN [W EXCEPT !.snap_a = SlotCut(@, snap, cut), !.dead = TRUE]
  ELSE [W EXCEPT !.snap_b = SlotCut(@, snap, cut), !.dead = TRUE]

\* meta_load_head_hint: [rc, addr, seq]
meta_load_head_hint(W) ==
  IF W.hint.k = "valid" THEN [rc |-> 0, addr |-> W.hint.addr, seq |-> W.hint.seq]
  ELSE [rc |-> -1, addr |-> 0, seq |-> 0]

\* ------------------------------------------------------------------------
\* ring_scan_and_recover (src/src/ring.c)
\* ------------------------------------------------------------------------
\* the probe loop: index of the first data page whose read_block fails
RECURSIVE ProbeFirstFree(_, _, _)
ProbeFirstFree(flash, base, p) ==
  IF p >= STAMPDB_DATA_PAGES_PER_SEG THEN p
  ELSE IF read_block(flash, base + p * STAMPDB_PAGE_BYTES).r # 0 THEN p
  ELSE ProbeFirstFree(flash, base, p + 1)

\* zone-map entry taken from a footer
SummaryOf(base, f) ==
  [valid |-> TRUE, addr_first |-> base, seg_seqno |-> f.seg_seqno,
   t_min |-> f.t_min, t_max |-> f.t_max, block_count |-> f.block_count,
   series_bitmap |-> f.series_bitmap]

\* zone map after the footer loop; entries without a footer keep whatever
\* the workspace memory held, with valid cleared
FooterSegs(W) ==
  [i \in SegsOf(W.s) |->
     IF read_footer(W.flash, i * STAMPDB_SEG_BYTES).rc = 0
     THEN SummaryOf(i * STAMPDB_SEG_BYTES, read_footer(W.flash, i * STAMPDB_SEG_BYTES).f)
     ELSE [W.s.segs[i] EXCEPT !.valid = FALSE]]

\* index of the valid entry with the greatest sequence number (first wins)
BestIdx(segs) ==
  CHOOSE i \in DOMAIN segs :
    /\ segs[i].valid
    /\ \A j \in DOMAIN segs : segs[j].valid =>
         (segs[i].seg_seqno > segs[j].seg_seqno
          \/ (segs[i].seg_seqno = segs[j].seg_seqno /\ i <= j))

HeadAt(addr, seqno) ==
  [addr |-> addr, page_index |-> (addr % STAMPDB_SEG_BYTES) \div STAMPDB_PAGE_BYTES,
   seg_seqno |-> seqno]

\* recovery without a snapshot, after the head hint was applied: the head goes
\* to the segment of the newest footer; without any footer segment 0 is
\* summarised by scanning its pages
RecoverNoSnapshot_KeepHint(flash, s2) == s2
RecoverNoSnapshot(flash, s2) ==
  IF \E i \in SegsOf(s2) : s2.segs[i].valid
  THEN Bind(BestIdx(s2.segs), LAMBDA best_i :
         [s2 EXCEPT
            !.head = [addr |-> best_i * STAMPDB_SEG_BYTES, page_index |-> 0,
                      seg_seqno |-> s2.segs[best_i].seg_seqno + 1],
            \* uint32_t subtraction; a negative number here stands for the
            \* wrapped value
            !.tail_seqno = s2.segs[best_i].seg_seqno - (s2.seg_count - 1)])
  ELSE [s2 EXCEPT
          !.head = [addr |-> 0, page_index |-> 0, seg_seqno |-> 1],
          !.tail_seqno = 1,
          !.segs[0] = SummaryOf(0, FooterOf(1, ScanPages(flash, 0, 0, EmptyAgg)))]

\* head, tail, epoch and zone map before the probe of the head segment
RecoverHead(W, snap_opt) ==
  Bind([W.s EXCEPT !.segs = FooterSegs(W)], LAMBDA s1 :
    IF snap_opt.rc = 0
    THEN [s1 EXCEPT
            !.head = HeadAt(snap_opt.snap.head_addr, snap_opt.snap.seg_seq_head),
            !.tail_seqno = snap_opt.snap.seg_seq_tail,
            !.epoch_id = snap_opt.snap.epoch_id]
    ELSE Bind(meta_load_head_hint(W), LAMBDA hint :
           RecoverNoSnapshot(W.flash,
             IF hint.rc = 0 /\ hint.addr < s1.seg_count * STAMPDB_SEG_BYTES
             THEN [s1 EXCEPT !.head = HeadAt(hint.addr, hint.seq)]
             ELSE s1)))

\* the ring size ring_scan_and_recover derives from the flash size
SegCountOf(flash_bytes) ==
  (IF flash_bytes > STAMPDB_META_RESERVED THEN flash_bytes - STAMPDB_META_RESERVED
   ELSE flash_bytes) \div STAMPDB_SEG_BYTES

ring_scan_and_recover(W0, snap_opt) ==
  Bind([W0 EXCEPT !.s.seg_count = SegCountOf(sim_flash_size_bytes(W0.flash))], LAMBDA W :
  Bind(RecoverHead(W, snap_opt), LAMBDA s1 :
  Bind(align_down(s1.head.addr, STAMPDB_SEG_BYTES), LAMBDA cur_seg_base :
  Bind(ProbeFirstFree(W.flash, cur_seg_base, 0), LAMBDA first_free_page :
    [W EXCEPT !.s =
       [s1 EXCEPT
          !.recovery_truncations =
             IF first_free_page < STAMPDB_DATA_PAGES_PER_SEG /\ first_free_page > 0
             THEN @ + 1 ELSE @,
          !.head.page_index = first_free_page,
          !.head.addr = cur_seg_base + first_free_page * STAMPDB_PAGE_BYTES,
          !.last_hint_ms = W.now]]))))

\* ------------------------------------------------------------------------
\* Writer facade (src/src/stampdb.c)
\* ------------------------------------------------------------------------
\* begin_block that keeps the series of the previous block (a mutation of
\* begin_block)
begin_block_KeepSeries(W, series, ts, val) ==
  [W EXCEPT !.s.cur_t0 = ts, !.s.last_ts = ts,
            !.s.cur_count = 0, !.s.cur_min = val, !.s.cur_max = val,
            !.s.cur_dt_bits = 8,
            !.g_cur = <<>>]
begin_block(W, series, ts, val) ==
  [W EXCEPT !.s.cur_series = series, !.s.cur_t0 = ts, !.s.last_ts = ts,
            !.s.cur_count = 0, !.s.cur_min = val, !.s.cur_max = val,
            !.s.cur_dt_bits = 8,
            \* ghost: rows handed to the builder for this block
            !.g_cur = <<>>]

\* roundf(n / d) for d > 0, halves away from zero
RoundDiv(n, d) ==
  IF n < 0 THEN -((2 * (-n) + d) \div (2 * d)) ELSE (2 * n + d) \div (2 * d)

Clamp16(qf) == IF qf < -32768 THEN -32768 ELSE IF qf > 32767 THEN 32767 ELSE qf

\* roundf((v - bias) / scale) clamped to int16, with 2*bias = bias2 and
\* 65535*scale = span; span 0 selects scale 1e-9, every value equals bias
Quantize(v, bias2, span) ==
  IF span = 0 THEN 0
  ELSE Clamp16(RoundDiv((2 * v - bias2) * 65535, 2 * span))

\* whether some staged delta exceeds 255
\* the width test with the limit one too high (a mutation of MaxDeltaOver255)
MaxDeltaOver255_Over256(deltas, n) == \E i \in 1..n : u32_gt(deltas[i], U32(0, 256))
MaxDeltaOver255(deltas, n) == \E i \in 1..n : u32_gt(deltas[i], U32(0, 255))

\* finalize_and_write_block. The encoder writes 4 bytes per row into the
\* STAMPDB_PAYLOAD_BYTES stack buffer when a delta exceeds 255; beyond the
\* buffer that is a stack overflow, whose outcome ub is either "benign" (the
\* bytes land in dead stack, the first STAMPDB_PAYLOAD_BYTES are published)
\* or "abort" (the process is killed when the function returns)
finalize_and_write_block(W, ub) ==
  IF W.dead \/ W.s.cur_count = 0 THEN W
  ELSE
    Bind(IF W.s.cur_max < W.s.cur_min THEN W.s.cur_min ELSE W.s.cur_max, LAMBDA maxv :
    Bind(maxv - W.s.cur_min, LAMBDA span :
    Bind(maxv + W.s.cur_min, LAMBDA bias2 :
    Bind(IF MaxDeltaOver255(W.s.stg_deltas, W.s.cur_count) THEN 16 ELSE 8,
         LAMBDA dt_bits :
    Bind(codec_encode_payload(dt_bits, W.s.stg_deltas,
           [i \in 1..W.s.cur_count |-> Quantize(W.s.stg_vals[i], bias2, span)],
           W.s.cur_count), LAMBDA enc :
    Bind(Len(enc) > STAMPDB_PAYLOAD_BYTES, LAMBDA overflow :
    Bind(SubSeq(enc, 1, STAMPDB_PAYLOAD_BYTES), LAMBDA payload :
    Bind(ring_write_block(
           [W EXCEPT !.s.cur_dt_bits = dt_bits, !.g_overflow = @ \/ overflow],
           [series |-> W.s.cur_series, count |-> W.s.cur_count,
            t0_ms |-> W.s.cur_t0, dt_bits |-> dt_bits, bias2 |-> bias2,
            span |-> span, payload_crc |-> crc32c(payload)],
           payload), LAMBDA W1 :
      IF overflow /\ ub = "abort" THEN [W1 EXCEPT !.dead = TRUE]
      ELSE [W1 EXCEPT !.s.cur_count = 0]))))))))

\* the append at the end of push_sample
PushStore(W3, cur, dt, series, ts, val) ==
  [W3 EXCEPT
     !.s.stg_deltas = SubSeq(@, 1, cur) \o <<dt>>,
     !.s.stg_vals = SubSeq(@, 1, cur) \o <<val>>,
     !.s.cur_min = IF val < @ THEN val ELSE @,
     !.s.cur_max = IF val > @ THEN val ELSE @,
     !.s.cur_count = @ + 1,
     !.s.last_ts = ts,
     \* ghost: the row is in the builder
     !.g_cur = @ \o <<[ts |-> ts, val |-> val, series |-> series]>>]

push_sample(W, series, ts, val, ub) ==
  Bind(IF W.s.cur_count > 0 /\ series # W.s.cur_series
       THEN finalize_and_write_block(W, ub) ELSE W, LAMBDA W1 :
  Bind(IF W1.s.cur_count = 0 THEN begin_block(W1, series, ts, val) ELSE W1, LAMBDA W2 :
  Bind(IF W2.s.cur_count = 0 THEN U32_ZERO ELSE u32_sub(ts, W2.s.last_ts), LAMBDA dt :
  Bind(W2.s.cur_count, LAMBDA cur :
  Bind(IF u32_gt(dt, U32(0, 255)) THEN 16 ELSE W2.s.cur_dt_bits, LAMBDA dt_bits_est :
  Bind((IF dt_bits_est = 8 THEN cur + 1 ELSE (cur + 1) * 2) + (cur + 1) * 2,
       LAMBDA payload_used :
    IF payload_used > STAMPDB_PAYLOAD_BYTES
    THEN PushStore(begin_block(finalize_and_write_block(W2, ub), series, ts, val),
                   0, U32_ZERO, series, ts, val)
    ELSE PushStore(W2, cur, IF cur = 0 THEN U32_ZERO ELSE dt, series, ts, val)))))))

\* builder fields are read only while cur_count > 0 (begin_block rewrites
\* them first), so their leftovers are dropped from the state
DropDeadBuilder(W) ==
  IF W.s.cur_count # 0 THEN W
  ELSE [W EXCEPT !.s.cur_series = 0, !.s.cur_t0 = U32_ZERO, !.s.last_ts = U32_ZERO,
                 !.s.cur_min = 0, !.s.cur_max = 0, !.s.cur_dt_bits = 0,
                 !.s.stg_deltas = <<>>, !.s.stg_vals = <<>>, !.g_cur = <<>>]

\* the argument check of stampdb_write with the test dropped (a mutation of
\* BadWriteArgs: every call is let through)
BadWriteArgs_Never(db, series) == FALSE

\* the argument check of stampdb_write; db is "null" or "handle"
BadWriteArgs(db, series) == db = "null" \/ series >= STAMPDB_MAX_SERIES

\* stampdb_write: the world after the call, return code in .rc
stampdb_write(W, db, series, ts_ms, value, ub) ==
  IF BadWriteArgs(db, series) THEN [W EXCEPT !.rc = STAMPDB_EINVAL]
  ELSE
    Bind(ring_gc_reclaim_if_needed(W, FALSE), LAMBDA W1 :
      IF W1.gc_rc = STAMPDB_EBUSY THEN [W1 EXCEPT !.rc = STAMPDB_EBUSY]
      ELSE
        Bind(push_sample(
               [W1 EXCEPT
                  !.s.epoch_id =
                     IF W1.s.blocks_written > 0
                        /\ u32_lt(ts_ms, W1.s.last_ts_observed)
                        /\ u32_gt(u32_sub(W1.s.last_ts_observed, ts_ms), U32_HALF)
                     THEN @ + 1 ELSE @,
                  !.s.last_ts_observed = ts_ms],
               series, ts_ms, value, ub), LAMBDA W3 :
          [DropDeadBuilder(IF W3.s.cur_count >= MAX_ROWS
                           THEN finalize_and_write_block(W3, ub) ELSE W3)
             EXCEPT !.rc = STAMPDB_OK]))

stampdb_flush(W, ub) ==
  [DropDeadBuilder(finalize_and_write_block(W, ub)) EXCEPT !.rc = STAMPDB_OK]

\* sequence number of the oldest used segment, head sequence when none
OldestSeq(s) ==
  IF UsedSegs(s) = {} THEN s.head.seg_seqno
  ELSE s.segs[OldestIdx(s)].seg_seqno

\* the record stampdb_snapshot_save builds from the state
SnapshotOf(s) ==
  [epoch_id |-> s.epoch_id, seg_seq_head |-> s.head.seg_seqno,
   seg_seq_tail |-> OldestSeq(s), head_addr |-> s.head.addr]

stampdb_snapshot_save(W) ==
  [meta_save_snapshot(W, SnapshotOf(W.s)) EXCEPT !.rc = STAMPDB_OK]

\* an open that records the recovered head in the head hint
stampdb_open_WritesHint(W, residue) ==
  Bind([W EXCEPT !.s = ZeroState(residue)], LAMBDA W0 :
  Bind(ring_scan_and_recover(W0, meta_load_snapshot(W0)), LAMBDA W1 :
    [W1 EXCEPT !.rc = STAMPDB_OK,
               !.hint = [k |-> "valid", addr |-> W1.s.head.addr,
                         seq |-> W1.s.head.seg_seqno]]))

\* stampdb_open on a workspace whose zone-map area holds `residue`
stampdb_open(W, residue) ==
  Bind([W EXCEPT !.s = ZeroState(residue)], LAMBDA W0 :
    [ring_scan_and_recover(W0, meta_load_snapshot(W0)) EXCEPT !.rc = STAMPDB_OK])

\* ------------------------------------------------------------------------
\* Range iterator (src/src/read_iter.c)
\* ------------------------------------------------------------------------
\* stampdb_query_begin
stampdb_query_begin(series, t0_ms, t1_ms) ==
  [series |-> series, t0 |-> t0_ms, t1 |-> t1_ms, seg_idx |-> 0, page_in_seg |-> 0,
   found |-> FALSE, visited |-> 0, crc |-> 0, rows |-> <<>>, page |-> 0]

\* one decoded row; a value is kept as
\* 131070 * (bias + scale * q) = 65535 * bias2 + 2 * span * q
RowOf(h, ti, q, page) ==
  [ts |-> ti, val |-> 65535 * h.bias2 + 2 * h.span * q, q |-> q,
   series |-> h.series, page |-> page]

\* times[] and values[] of a decoded block
RECURSIVE BlockRows(_, _, _, _, _)
BlockRows(h, dec, i, t, page) ==
  IF i > h.count THEN <<>>
  ELSE <<RowOf(h, u32_add(t, dec.deltas[i]), dec.qvals[i], page)>>
       \o BlockRows(h, dec, i + 1, u32_add(t, dec.deltas[i]), page)

\* the zone-map test of load_next_block: the segment may hold rows of the query
ZoneHit(sm, it) ==
  /\ sm.valid /\ sm.block_count # 0 /\ it.series \in sm.series_bitmap
  /\ \/ ts_in_range(sm.t_min, it.t0, it.t1)
     \/ ts_in_range(sm.t_max, it.t0, it.t1)
     \/ ts_in_range(it.t0, sm.t_min, sm.t_max)

RECURSIVE LoadLoop(_, _, _), ScanSeg(_, _, _)
\* the outer while of load_next_block
LoadLoop(s, flash, it) ==
  IF it.seg_idx >= s.seg_count THEN [it EXCEPT !.found = FALSE]
  ELSE IF ~ZoneHit(s.segs[it.seg_idx], it)
  THEN LoadLoop(s, flash, [it EXCEPT !.seg_idx = @ + 1, !.page_in_seg = 0])
  ELSE ScanSeg(s, flash, it)

\* the inner while of load_next_block and the two lines that follow it; a
\* break leaves the loop after seg_idx++ and runs into the seg_idx++ below it
ScanSeg(s, flash, it) ==
  IF it.page_in_seg >= STAMPDB_DATA_PAGES_PER_SEG
  THEN LoadLoop(s, flash, [it EXCEPT !.seg_idx = @ + 1, !.page_in_seg = 0])
  ELSE IF it.visited + 1 > s.seg_count * STAMPDB_DATA_PAGES_PER_SEG + 1
  THEN [it EXCEPT !.found = FALSE, !.visited = @ + 1]
  ELSE
    Bind([it EXCEPT !.visited = @ + 1], LAMBDA it1 :
    Bind(s.segs[it.seg_idx].addr_first + it.page_in_seg * STAMPDB_PAGE_BYTES,
         LAMBDA addr :
      IF ~ReadOk(flash, addr) \/ ~codec_unpack_header(flash[PageOf(addr)].hdr).ok
      THEN LoadLoop(s, flash, [it1 EXCEPT !.seg_idx = @ + 2, !.page_in_seg = 0])
      ELSE
        Bind(codec_unpack_header(flash[PageOf(addr)].hdr).h, LAMBDA h :
        Bind([it1 EXCEPT !.page_in_seg = @ + 1], LAMBDA it2 :
          IF h.series # it.series THEN ScanSeg(s, flash, it2)
          ELSE IF ~PayloadCrcOk(flash[PageOf(addr)].pay, h)
          THEN LoadLoop(s, flash, [it2 EXCEPT !.crc = @ + 1, !.seg_idx = @ + 2,
                                              !.page_in_seg = 0])
          ELSE [it2 EXCEPT
                  !.found = TRUE, !.page = PageOf(addr),
                  !.rows = BlockRows(h,
                             codec_decode_payload(flash[PageOf(addr)].pay.b,
                                                  h.dt_bits, h.count),
                             1, h.t0_ms, PageOf(addr))]))))

\* load_next_block that starts again at the first page of the segment (a
\* mutation of load_next_block)
load_next_block_Restart(s, flash, it) ==
  LoadLoop(s, flash, [it EXCEPT !.visited = 0, !.page_in_seg = 0])
load_next_block(s, flash, it) == LoadLoop(s, flash, [it EXCEPT !.visited = 0])

\* stampdb_next with the range test of line 83 dropped (a mutation of
\* Delivered, used to show that the range properties depend on that test)
Delivered_NoRangeTest(it) == it.rows

\* the rows of the loaded block that stampdb_next delivers
Delivered(it) ==
  SelectSeq(it.rows, LAMBDA r : ~(u32_lt(r.ts, it.t0) \/ u32_gt(r.ts, it.t1)))

\* stampdb_next called until it returns false: [rows, crc]
RECURSIVE Drain(_, _, _, _)
Drain(s, flash, it, acc) ==
  Bind(load_next_block(s, flash, it), LAMBDA it1 :
    IF ~it1.found THEN [rows |-> acc, crc |-> it1.crc]
    ELSE Drain(s, flash, it1, acc \o Delivered(it1)))

stampdb_next(s, flash, series, t0_ms, t1_ms) ==
  Drain(s, flash, stampdb_query_begin(series, t0_ms, t1_ms), <<>>)

\* ------------------------------------------------------------------------
\* stampdb_query_latest (src/src/read_iter.c)
\* ------------------------------------------------------------------------
\* candidate pages: those of used segments that hold a header of the series
LatestCandidates(s, flash, series) ==
  {c \in SegsOf(s) \X (0..(STAMPDB_DATA_PAGES_PER_SEG - 1)) :
     /\ s.segs[c[1]].valid /\ s.segs[c[1]].block_count # 0
     /\ series \in s.segs[c[1]].series_bitmap
     /\ ReadOk(flash, s.segs[c[1]].addr_first + c[2] * STAMPDB_PAGE_BYTES)
     /\ flash[PageOf(s.segs[c[1]].addr_first + c[2] * STAMPDB_PAGE_BYTES)].hdr.k = "hdr"
     /\ flash[PageOf(s.segs[c[1]].addr_first + c[2] * STAMPDB_PAGE_BYTES)].hdr.h.series
          = series}

\* int16 at byte offset k of a payload
Int16At(b, k) ==
  IF ByteAt(b, k) < 0 \/ ByteAt(b, k + 1) < 0 THEN UNDEF_Q
  ELSE IF ByteAt(b, k) + 256 * ByteAt(b, k + 1) >= 2^15
  THEN ByteAt(b, k) + 256 * ByteAt(b, k + 1) - W16
  ELSE ByteAt(b, k) + 256 * ByteAt(b, k + 1)

\* the last row of the block on page pg; a payload area that is no byte image
\* reads as unknown bytes, the result is then flagged instead of computed
LatestRow(h, b, pg, garbled) ==
  Bind(Int16At(b, h.count * DeltaWidth(h.dt_bits) + (h.count - 1) * 2), LAMBDA q :
    [rc |-> STAMPDB_OK, ts |-> SumDeltas(h.t0_ms, b, DeltaWidth(h.dt_bits), h.count),
     q |-> q, val |-> 65535 * h.bias2 + 2 * h.span * q, page |-> pg,
     garbled |-> garbled])

\* stampdb_query_latest: [rc, ts, q, val, page, garbled]; the scan runs from
\* the highest segment index down and in it from the highest page down
stampdb_query_latest(s, flash, series) ==
  Bind(LatestCandidates(s, flash, series), LAMBDA cands :
    IF cands = {}
    THEN [rc |-> STAMPDB_EINVAL, ts |-> U32_ZERO, q |-> 0, val |-> 0, page |-> 0,
          garbled |-> FALSE]
    ELSE
      Bind(CHOOSE c \in cands :
             \A d \in cands : d[1] < c[1] \/ (d[1] = c[1] /\ d[2] <= c[2]),
           LAMBDA best :
      Bind(PageOf(s.segs[best[1]].addr_first + best[2] * STAMPDB_PAGE_BYTES),
           LAMBDA pg :
        LatestRow(flash[pg].hdr.h,
                  IF flash[pg].pay.k = "bytes" THEN flash[pg].pay.b ELSE ErasedBytes,
                  pg, flash[pg].pay.k # "bytes"))))

\* ------------------------------------------------------------------------
\* State machine
\* ------------------------------------------------------------------------
VARIABLES
  flash,      \* NOR flash: page index -> page
  snap_a,     \* snapshot slot A
  snap_b,     \* snapshot slot B
  hint,       \* head hint file
  s,          \* stampdb_state_t in the workspace (its residue while closed)
  mode,       \* "closed" or "open"
  now,        \* platform_millis()
  gc,         \* function-local statics of ring_gc_reclaim_if_needed
  rc,         \* return code of the last API call
  ioerr,      \* a program primitive failed during the last API call
  last,       \* name of the last operation
  qres,       \* what the last query delivered
  nwrites,    \* stampdb_write calls so far
  nfaults,    \* faults injected so far
  nopens,     \* stampdb_open calls so far
  nsnaps,     \* stampdb_snapshot_save calls so far
  g_pages,    \* ghost: page index -> block the writer published there
  g_flushed,  \* ghost: published pages covered by a flush that returned OK
  g_cur,      \* ghost: rows handed to the block builder
  g_overflow, \* ghost: an encode ran past the payload buffer
  g_corrupt,  \* ghost: pages damaged from outside while the database was closed
  g_cut,      \* ghost: page under ring_write_block when power was lost, or -1
  g_io,       \* ghost: a program primitive has returned non-zero
  g_erases,   \* ghost: platform_millis() at the latest sector erases
  g_reclaimed, \* ghost: segment the GC pass of the last call reclaimed, or -1
  codec       \* arguments and results of a call of the payload codec

vars ==
  <<flash, snap_a, snap_b, hint, s, mode, now, gc, rc, ioerr, last, qres,
    nwrites, nfaults, nopens, nsnaps, g_pages, g_flushed, g_cur, g_overflow, g_corrupt,
    g_cut, g_io, g_erases, g_reclaimed, codec>>

\* no codec call is under way
NoCodec ==
  [phase |-> "none", dt_bits |-> 8, count |-> 0, ts_deltas |-> <<>>, qvals |-> <<>>,
   dst224 |-> <<>>, out |-> [deltas |-> <<>>, qvals |-> <<>>]]

Series == {1, 2}
\* the series the application queries; writes choose freely between the two
\* series and nothing else distinguishes them, so every query on series 2 is
\* a query on series 1 in the run with the series exchanged
QuerySeries == {1}

\* timestamp of the i-th write of the application: steps of 10 ms with one
\* gap of 280 ms after the second write, starting 295 ms before the 32-bit
\* wrap, which falls between the third and the fourth write:
\*   2^32-295, 2^32-285, 2^32-5, 5, 15, 25, ...
TsAt(i) == u32_sub(U32(0, 10 * i + (IF i >= 3 THEN 270 ELSE 0)), U32(0, 305))
ValAt(i) == (3 * i) % 5

\* query windows: everything, a window below the wrap (it holds the second
\* and the third timestamp), and a window across the wrap, t0 > t1 (it holds
\* the second, third and fourth timestamp)
Windows ==
  {<<U32_ZERO, U32_MAX>>, <<U32(W16 - 1, W16 - 290), U32_MAX>>,
   <<U32(W16 - 1, W16 - 290), U32(0, 10)>>}

\* the zone map of a cleared workspace, as long as the ring of this flash
ZeroSegs ==
  [i \in 0..(SegCountOf(sim_flash_size_bytes(flash)) - 1) |-> ZeroSummary]
ZeroGc == [window_start |-> 0, erased_in_window |-> 0]
NoQuery ==
  [kind |-> "none", series |-> 0, t0 |-> U32_ZERO, t1 |-> U32_ZERO, rows |-> <<>>,
   crc |-> 0, rc |-> 0, ts |-> U32_ZERO, page |-> 0]

\* a fresh device before the first stampdb_open
InitDevice ==
  /\ flash = [p \in 0..(FlashPages - 1) |-> ErasedPage]
  /\ snap_a = SlotNone /\ snap_b = SlotNone /\ hint = HintNone
  /\ s = ZeroState(ZeroSegs)
  /\ mode = "closed"
  /\ now = 0 /\ gc = ZeroGc
  /\ rc = STAMPDB_OK /\ ioerr = FALSE /\ last = "init" /\ qres = NoQuery
  /\ nwrites = 0 /\ nfaults = 0
  /\ nopens = 0 /\ nsnaps = 0
  /\ g_pages = [p \in 0..(FlashPages - 1) |-> NoGhost]
  /\ g_flushed = {} /\ g_cur = <<>> /\ g_overflow = FALSE /\ g_corrupt = {}
  /\ g_cut = -1 /\ g_io = FALSE /\ g_erases = <<>> /\ g_reclaimed = -1

Init ==
  /\ InitDevice
  /\ codec = NoCodec

\* the world a handler runs in, with the fault that will hit it
World(ft) ==
  [flash |-> flash, snap_a |-> snap_a, snap_b |-> snap_b, hint |-> hint, s |-> s,
   now |-> now, gc |-> gc, fault |-> ft, dead |-> FALSE, ioerr |-> FALSE,
   rwb |-> 0, gc_rc |-> 0, rc |-> STAMPDB_OK,
   g_pages |-> g_pages, g_flushed |-> g_flushed, g_cur |-> g_cur,
   g_overflow |-> g_overflow, g_cut |-> g_cut, g_erases |-> g_erases,
   g_reclaimed |-> -1]

\* the state a handler leaves behind; a process that died leaves the flash
\* and the files, its RAM and statics are gone
Commit(W, op) ==
  /\ flash' = W.flash /\ snap_a' = W.snap_a /\ snap_b' = W.snap_b /\ hint' = W.hint
  /\ now' = W.now
  /\ g_pages' = W.g_pages /\ g_overflow' = W.g_overflow /\ g_cut' = W.g_cut
  /\ g_flushed' = W.g_flushed /\ g_erases' = W.g_erases /\ g_reclaimed' = W.g_reclaimed
  /\ ioerr' = W.ioerr /\ g_io' = (g_io \/ W.ioerr)
  /\ qres' = NoQuery /\ codec' = codec
  /\ IF W.dead
     THEN /\ s' = ZeroState(ZeroSegs) /\ mode' = "closed" /\ gc' = ZeroGc
          /\ rc' = -1 /\ last' = "died" /\ g_cur' = <<>>
     ELSE /\ s' = W.s /\ mode' = "open" /\ gc' = W.gc
          /\ rc' = W.rc /\ last' = op /\ g_cur' = W.g_cur

\* pages that hold a block the writer published
Published(gp) == {p \in DOMAIN gp : gp[p] # NoGhost}

\* events of the run so far, and whether it has room for k more
Events == nwrites + nfaults + nopens + nsnaps
Room(k) == Events + k <= MaxEvents

FaultChoice ==
  IF nfaults < MaxFaults /\ Room(2) THEN Faults \cup {NoFault} ELSE {NoFault}
Used(ft, W) == IF ft # NoFault /\ W.fault = NoFault THEN 1 ELSE 0

\* stampdb_open; residue "zero" is a new process with a cleared workspace,
\* "stale" the same process reusing its workspace
Open(residue) ==
  /\ mode = "closed"
  /\ nopens < MaxOpens /\ Room(1)
  /\ \E W \in {stampdb_open([World(NoFault) EXCEPT
                                !.gc = IF residue = "zero" THEN ZeroGc ELSE @],
                             IF residue = "zero" THEN ZeroSegs ELSE s.segs)} :
       Commit(W, "open")
  /\ nopens' = nopens + 1
  /\ UNCHANGED <<nwrites, nfaults, nsnaps, g_corrupt>>

\* stampdb_close: nothing is written; the staged rows are abandoned
Close ==
  /\ mode = "open"
  /\ mode' = "closed"
  /\ s' = ZeroState(s.segs)
  /\ g_cur' = <<>> /\ last' = "close" /\ qres' = NoQuery /\ ioerr' = FALSE
  /\ g_reclaimed' = -1 /\ codec' = codec
  /\ UNCHANGED <<flash, snap_a, snap_b, hint, now, gc, rc, nwrites, nfaults, nopens,
                 nsnaps, g_pages, g_flushed, g_overflow, g_corrupt, g_cut, g_io,
                 g_erases>>

Write(series, ft, ub) ==
  /\ mode = "open"
  /\ nwrites < MaxWrites /\ Room(1)
  /\ \E W \in {stampdb_write(World(ft), "handle", series, TsAt(nwrites + 1),
                              ValAt(nwrites + 1), ub)} :
       /\ Commit(W, "write")
       /\ nfaults' = nfaults + Used(ft, W)
  /\ nwrites' = nwrites + 1
  /\ UNCHANGED <<nopens, nsnaps, g_corrupt>>

\* stampdb_write called with a null handle or with a series id that is out
\* of range; the application keeps its sample, so the schedule does not move
WriteRejected(db, series) ==
  /\ mode = "open"
  /\ \E W \in {stampdb_write(World(NoFault), db, series, TsAt(nwrites + 1),
                              ValAt(nwrites + 1), "benign")} :
       Commit(W, "write")
  /\ UNCHANGED <<nwrites, nfaults, nopens, nsnaps, g_corrupt>>

Flush(ft, ub) ==
  /\ mode = "open"
  /\ \E W0 \in {stampdb_flush(World(ft), ub)} :
       /\ Commit(IF W0.dead THEN W0
                 ELSE [W0 EXCEPT !.g_flushed = Published(W0.g_pages)], "flush")
       /\ nfaults' = nfaults + Used(ft, W0)
  /\ UNCHANGED <<nwrites, nopens, nsnaps, g_corrupt>>

SnapshotSave ==
  /\ mode = "open"
  /\ nsnaps < MaxSnapshots /\ Room(1)
  /\ \E W \in {stampdb_snapshot_save(World(NoFault))} : Commit(W, "snapshot")
  /\ nsnaps' = nsnaps + 1
  /\ UNCHANGED <<nwrites, nopens, nfaults, g_corrupt>>

\* stampdb_snapshot_save during which power is lost
SnapshotSaveCut(cut) ==
  /\ mode = "open"
  /\ nfaults < MaxFaults /\ Room(1)
  /\ \E W \in {meta_save_snapshot_cut(World(NoFault), SnapshotOf(s), cut)} :
       Commit(W, "snapshot")
  /\ nfaults' = nfaults + 1
  /\ UNCHANGED <<nwrites, nopens, nsnaps, g_corrupt>>

\* stampdb_query_begin, stampdb_next until it returns false, stampdb_query_end
\* a range query that reports the CRC errors of this query only
Query_ResetsCrc(series, win) ==
  /\ mode = "open"
  /\ \E r \in {stampdb_next(s, flash, series, win[1], win[2])} :
         /\ s.crc_errors + r.crc <= MaxCrcErrors
         /\ s' = [s EXCEPT !.crc_errors = r.crc]
         /\ qres' = [kind |-> "range", series |-> series, t0 |-> win[1],
                     t1 |-> win[2], rows |-> r.rows, crc |-> r.crc,
                     rc |-> STAMPDB_OK, ts |-> U32_ZERO, page |-> 0]
  /\ last' = "query" /\ rc' = STAMPDB_OK /\ ioerr' = FALSE /\ g_reclaimed' = -1
  /\ codec' = codec
  /\ UNCHANGED <<flash, snap_a, snap_b, hint, mode, now, gc, nwrites, nfaults, nopens,
                 nsnaps, g_pages, g_flushed, g_cur, g_overflow, g_corrupt, g_cut,
                 g_io, g_erases>>

Query(series, win) ==
  /\ mode = "open"
  /\ \E r \in {stampdb_next(s, flash, series, win[1], win[2])} :
         /\ s.crc_errors + r.crc <= MaxCrcErrors
         /\ s' = [s EXCEPT !.crc_errors = @ + r.crc]
         /\ qres' = [kind |-> "range", series |-> series, t0 |-> win[1],
                     t1 |-> win[2], rows |-> r.rows, crc |-> r.crc,
                     rc |-> STAMPDB_OK, ts |-> U32_ZERO, page |-> 0]
  /\ last' = "query" /\ rc' = STAMPDB_OK /\ ioerr' = FALSE /\ g_reclaimed' = -1
  /\ codec' = codec
  /\ UNCHANGED <<flash, snap_a, snap_b, hint, mode, now, gc, nwrites, nfaults, nopens,
                 nsnaps, g_pages, g_flushed, g_cur, g_overflow, g_corrupt, g_cut,
                 g_io, g_erases>>

QueryLatest(series) ==
  /\ mode = "open"
  /\ \E r \in {stampdb_query_latest(s, flash, series)} :
         /\ qres' = [kind |-> "latest", series |-> series, t0 |-> U32_ZERO,
                     t1 |-> U32_ZERO, rows |-> <<>>, crc |-> 0, rc |-> r.rc,
                     ts |-> r.ts, page |-> r.page]
         /\ rc' = r.rc
  /\ last' = "latest" /\ ioerr' = FALSE /\ g_reclaimed' = -1 /\ codec' = codec
  /\ UNCHANGED <<flash, snap_a, snap_b, hint, s, mode, now, gc, nwrites, nfaults,
                 nopens, nsnaps, g_pages, g_flushed, g_cur, g_overflow, g_corrupt,
                 g_cut, g_io, g_erases>>

\* damage done to the flash image while the database is closed: a block
\* header garbled, a payload bit flipped, or a footer wiped
Corrupt(kind, p) ==
  /\ mode = "closed"
  /\ nfaults < MaxFaults /\ Room(1)
  /\ p \div STAMPDB_PAGES_PER_SEG < SEG_COUNT
  /\ \/ /\ kind = "hdr" /\ flash[p].hdr.k = "hdr"
        /\ flash' = [flash EXCEPT ![p].hdr = HdrBad]
     \/ /\ kind = "pay" /\ flash[p].hdr.k = "hdr" /\ flash[p].pay.k = "bytes"
        /\ flash' = [flash EXCEPT ![p].pay.b[1] =
                       IF @ % 2 = 0 THEN @ + 1 ELSE @ - 1]
     \/ /\ kind = "foot" /\ flash[p].pay.k = "foot"
        /\ flash' = [flash EXCEPT ![p].pay = PayBad]
  /\ g_corrupt' = g_corrupt \cup {p}
  /\ nfaults' = nfaults + 1
  /\ last' = "corrupt" /\ qres' = NoQuery /\ g_reclaimed' = -1 /\ codec' = codec
  /\ UNCHANGED <<snap_a, snap_b, hint, s, mode, now, gc, rc, ioerr, nwrites, nopens,
                 nsnaps, g_pages, g_flushed, g_cur, g_overflow, g_cut, g_io, g_erases>>

Next ==
  \/ \E residue \in {"zero", "stale"} : Open(residue)
  \/ Close
  \/ \E series \in Series, ft \in FaultChoice, ub \in {"benign", "abort"} :
       Write(series, ft, ub)
  \/ \E a \in {<<"null", 1>>, <<"handle", STAMPDB_MAX_SERIES>>} : WriteRejected(a[1], a[2])
  \/ \E ft \in FaultChoice, ub \in {"benign", "abort"} : Flush(ft, ub)
  \/ SnapshotSave
  \/ \E cut \in {"tmp", "removed", "renamed"} : SnapshotSaveCut(cut)
  \/ \E series \in QuerySeries, win \in Windows : Query(series, win)
  \/ \E series \in QuerySeries : QueryLatest(series)
  \/ \E kind \in {"hdr", "pay", "foot"}, p \in 0..(FlashPages - 1) : Corrupt(kind, p)

Spec == Init /\ [][Next]_vars

\* ------------------------------------------------------------------------
\* Long runs: a writer that fills the ring many times over, on a ring of a
\* single segment, on one of 2 segments and on one of GcSegCount segments,
\* with the clock advancing
\* ------------------------------------------------------------------------
GcSegCount == 11
OneSegCount == 1
MaxLongWrites == 26
MaxTicks == 2
TickMs == 600

InitLong ==
  /\ \E n \in {OneSegCount, SEG_COUNT, GcSegCount} :
       /\ flash = [p \in 0..(FlashPagesOf(n) - 1) |-> ErasedPage]
       /\ g_pages = [p \in 0..(FlashPagesOf(n) - 1) |-> NoGhost]
  /\ snap_a = SlotNone /\ snap_b = SlotNone /\ hint = HintNone
  /\ s = ZeroState(ZeroSegs)
  /\ mode = "closed"
  /\ now = 0 /\ gc = ZeroGc
  /\ rc = STAMPDB_OK /\ ioerr = FALSE /\ last = "init" /\ qres = NoQuery
  /\ nwrites = 0 /\ nfaults = 0
  /\ nopens = 0 /\ nsnaps = 0
  /\ g_flushed = {} /\ g_cur = <<>> /\ g_overflow = FALSE /\ g_corrupt = {}
  /\ g_cut = -1 /\ g_io = FALSE /\ g_erases = <<>> /\ g_reclaimed = -1
  /\ codec = NoCodec

\* stampdb_open by a new process
LongOpen ==
  /\ mode = "closed"
  /\ nopens < MaxOpens
  /\ \E W \in {stampdb_open([World(NoFault) EXCEPT !.gc = ZeroGc], ZeroSegs)} :
       Commit(W, "open")
  /\ nopens' = nopens + 1
  /\ UNCHANGED <<nwrites, nfaults, nsnaps, g_corrupt>>

\* stampdb_write of the next sample of the schedule, the series alternating so
\* that every write closes the block of the write before it
LongWrite ==
  /\ mode = "open"
  /\ nwrites < MaxLongWrites
  /\ \E W \in {stampdb_write(World(NoFault), "handle", 1 + (nwrites % 2),
                              TsAt(nwrites + 1), ValAt(nwrites + 1), "benign")} :
       Commit(W, "write")
  /\ nwrites' = nwrites + 1
  /\ UNCHANGED <<nfaults, nopens, nsnaps, g_corrupt>>

\* platform_millis moves on between two calls
Tick ==
  /\ now < MaxTicks * TickMs
  /\ now' = now + TickMs
  /\ UNCHANGED <<flash, snap_a, snap_b, hint, s, mode, gc, rc, ioerr, last, qres,
                 nwrites, nfaults, nopens, nsnaps, g_pages, g_flushed, g_cur,
                 g_overflow, g_corrupt, g_cut, g_io, g_erases, g_reclaimed, codec>>

NextLong ==
  \/ LongOpen
  \/ Close
  \/ LongWrite
  \/ Tick

SpecLong == InitLong /\ [][NextLong]_vars

\* ------------------------------------------------------------------------
\* The payload codec called on its own, as src/tests/tests_codec.c does
\* ------------------------------------------------------------------------
\* the delta widths, the counts whose encoding fits the payload, and the
\* deltas and quantized values a caller passes
CodecCounts(dt_bits) ==
  {n \in 0..MAX_ROWS : n * DeltaWidth(dt_bits) + n * 2 <= STAMPDB_PAYLOAD_BYTES}
CodecDeltas(dt_bits) ==
  IF dt_bits = 8 THEN {U32(0, 0), U32(0, 1), U32(0, 255)}
  ELSE {U32(0, 0), U32(0, 256), U32(0, W16 - 1)}
CodecQvals == {-32768, -1, 0, 32767}

InitCodec ==
  /\ InitDevice
  /\ \E dt_bits \in {8, 16} : \E n \in CodecCounts(dt_bits) :
       \E d \in [1..n -> CodecDeltas(dt_bits)], q \in [1..n -> CodecQvals] :
         codec = [NoCodec EXCEPT !.phase = "args", !.dt_bits = dt_bits, !.count = n,
                                 !.ts_deltas = d, !.qvals = q]

\* codec_encode_payload(dst224, dt_bits, ts_deltas, qvals, count)
CodecEncode ==
  /\ codec.phase = "args"
  /\ codec' = [codec EXCEPT
                 !.phase = "encoded",
                 !.dst224 = codec_encode_payload(codec.dt_bits, codec.ts_deltas,
                                                 codec.qvals, codec.count)]
  /\ UNCHANGED <<flash, snap_a, snap_b, hint, s, mode, now, gc, rc, ioerr, last, qres,
                 nwrites, nfaults, nopens, nsnaps, g_pages, g_flushed, g_cur,
                 g_overflow, g_corrupt, g_cut, g_io, g_erases, g_reclaimed>>

\* codec_decode_payload(src224, dt_bits, ts_deltas, qvals, count) on the
\* buffer the encoder filled
CodecDecode ==
  /\ codec.phase = "encoded"
  /\ codec' = [codec EXCEPT
                 !.phase = "decoded",
                 !.out = codec_decode_payload(codec.dst224, codec.dt_bits, codec.count)]
  /\ UNCHANGED <<flash, snap_a, snap_b, hint, s, mode, now, gc, rc, ioerr, last, qres,
                 nwrites, nfaults, nopens, nsnaps, g_pages, g_flushed, g_cur,
                 g_overflow, g_corrupt, g_cut, g_io, g_erases, g_reclaimed>>

NextCodec ==
  \/ CodecEncode
  \/ CodecDecode

SpecCodec == InitCodec /\ [][NextCodec]_vars

\* ------------------------------------------------------------------------
\* Writes with free timestamps: each write is later than the one before it by
\* one of these steps (modulo 2^32): nothing, the two sides of the 8-bit and
\* of the 16-bit delta limit, the two sides of half the range, and one step
\* back
\* ------------------------------------------------------------------------
MaxGapWrites == 3
TsDeltas ==
  {U32_ZERO, U32(0, 255), U32(0, 256), U32(0, W16 - 1), U32(1, 0),
   U32_HALF, u32_add(U32_HALF, U32(0, 1)), U32_MAX}

\* stampdb_write of a sample of series 1 whose timestamp is the last
\* timestamp handed to stampdb_write in this session plus the step d
GapWrite(d, ub) ==
  /\ mode = "open"
  /\ nwrites < MaxGapWrites
  /\ \E W \in {stampdb_write(World(NoFault), "handle", 1,
                              u32_add(s.last_ts_observed, d), ValAt(nwrites + 1), ub)} :
       Commit(W, "write")
  /\ nwrites' = nwrites + 1
  /\ UNCHANGED <<nfaults, nopens, nsnaps, g_corrupt>>

NextGap ==
  \/ LongOpen
  \/ Close
  \/ \E d \in TsDeltas, ub \in {"benign", "abort"} : GapWrite(d, ub)
  \/ \E ub \in {"benign", "abort"} : Flush(NoFault, ub)

SpecGap == Init /\ [][NextGap]_vars

\* ------------------------------------------------------------------------
\* Properties
\* ------------------------------------------------------------------------
\* timestamps of a sequence of rows
TsOf(rows) == {rows[i].ts : i \in DOMAIN rows}

\* a run without injected fault, outside damage or encoder overrun
Clean == nfaults = 0 /\ ~g_overflow

\* what a range query over the whole time axis yields for a series now
AllRows(series) == stampdb_next(s, flash, series, U32_ZERO, U32_MAX).rows

\* every sample the writer published on page p is yielded by such a query
Returned(p) == TsOf(g_pages[p].rows) \subseteq TsOf(AllRows(g_pages[p].series))

\* C1: once stampdb_flush has returned OK, and the engine is closed and
\* opened again on the same flash and metadata files, a range query over the
\* whole time axis yields every sample published up to that flush whose
\* segment has not been erased since; with or without a snapshot, with or
\* without a sealed segment.
C1_FlushedSurviveReopen ==
  (last = "open" /\ Clean) => \A p \in g_flushed : Returned(p)

\* C2: when power is lost inside ring_write_block, then after the next open
\* the page that was being written is a complete valid block or no block (its
\* header does not verify), and every block published before that call is
\* still yielded by a range query.
C2_PowerCutSafe ==
  (last = "open" /\ g_cut # -1 /\ ~g_overflow) =>
     /\ codec_unpack_header(flash[g_cut].hdr).ok =>
          read_block(flash, g_cut * STAMPDB_PAGE_BYTES).r = 0
     /\ \A p \in Published(g_pages) \ {g_cut} : Returned(p)

\* C3: after any sequence of writes, flushes, power cuts and reopens (no
\* program primitive has failed), every page on which ring_write_block
\* completed both program steps, and which nothing outside the engine has
\* damaged, reads back as a block whose header CRC and payload CRC both
\* verify; the page on which recovery put the head after a torn write
\* included.
C3_PublishedVerify ==
  ~g_io =>
     \A p \in Published(g_pages) \ g_corrupt :
        read_block(flash, p * STAMPDB_PAGE_BYTES).r = 0

\* pages holding a published block of a series
SeriesPages(series) == {p \in Published(g_pages) : g_pages[p].series = series}

\* timestamps of the samples of a series stored in published blocks
StoredTs(series) ==
  UNION {TsOf(g_pages[p].rows) : p \in SeriesPages(series)}

\* C4: every row an enumeration yields has its timestamp in [t0, t1] under
\* wrap-aware ordering and comes from a block whose header names the queried
\* series.
C4_YieldedInRange ==
  qres.kind = "range" =>
     \A i \in DOMAIN qres.rows :
        /\ ts_in_range(qres.rows[i].ts, qres.t0, qres.t1)
        /\ qres.rows[i].series = qres.series
        /\ flash[qres.rows[i].page].hdr.h.series = qres.series

\* C4 is exercised: an enumeration yielded rows of a block and withheld
\* another row of that block that lies outside the window, after stepping
\* over a block of another series in the same segment.
C4_Witness ==
  /\ qres.kind = "range" /\ Clean
  /\ \E i \in DOMAIN qres.rows :
       /\ \E j \in DOMAIN g_pages[qres.rows[i].page].rows :
            ~ts_in_range(g_pages[qres.rows[i].page].rows[j].ts, qres.t0, qres.t1)
       /\ \E p \in Published(g_pages) :
            /\ p \div STAMPDB_PAGES_PER_SEG
                 = qres.rows[i].page \div STAMPDB_PAGES_PER_SEG
            /\ p < qres.rows[i].page
            /\ g_pages[p].series # qres.series

\* C5: an enumeration yields exactly the stored samples of the series that
\* lie in the window, each once. Stated for the first process of a clean run
\* and the window over the whole time axis, where neither recovery nor the
\* arithmetic of wrapped windows plays a part.
C5_YieldedExactly ==
  (qres.kind = "range" /\ Clean /\ nopens = 1
     /\ qres.t0 = U32_ZERO /\ qres.t1 = U32_MAX) =>
     /\ TsOf(qres.rows) = StoredTs(qres.series)
     /\ Len(qres.rows) = Cardinality(TsOf(qres.rows))

\* C6: an enumeration over a wrapped window (t0 > t1) yields every stored
\* sample of the series with t >= t0 or t <= t1. Stated for the first
\* process of a clean run.
C6_WrappedWindow ==
  (qres.kind = "range" /\ Clean /\ nopens = 1 /\ u32_gt(qres.t0, qres.t1)) =>
     \A t \in StoredTs(qres.series) :
        (~u32_lt(t, qres.t0) \/ ~u32_gt(t, qres.t1)) => t \in TsOf(qres.rows)

\* timestamp of the last sample of the block published on page p
LastTs(p) == g_pages[p].rows[Len(g_pages[p].rows)].ts

\* the page of the most recently published block of a series: application
\* timestamps grow with every write, so it is the one whose last sample is
\* the newest
NewestPage(series) ==
  CHOOSE p \in SeriesPages(series) :
     \A q \in SeriesPages(series) : ts_le(LastTs(q), LastTs(p))

\* C7: stampdb_query_latest returns OK with the last sample of the most
\* recently published block of the series, also once the ring has rotated
\* back to segment 0, and STAMPDB_EINVAL when the series has no published
\* block. Stated for the first process of a clean run.
C7_LatestIsNewest ==
  (qres.kind = "latest" /\ Clean /\ nopens = 1) =>
     IF SeriesPages(qres.series) = {}
     THEN qres.rc = STAMPDB_EINVAL
     ELSE /\ qres.rc = STAMPDB_OK
          /\ qres.page = NewestPage(qres.series)
          /\ qres.ts = LastTs(NewestPage(qres.series))

\* pages damaged by the power cut or from outside
Damaged == g_corrupt \cup (IF g_cut = -1 THEN {} ELSE {g_cut})

\* the footer page of a segment
IsFooterPage(p) == p % STAMPDB_PAGES_PER_SEG = STAMPDB_PAGES_PER_SEG - 1

\* pages of the head segment below the head, i.e. the blocks that precede
\* the first invalid page of the head segment
BelowHead(st) ==
  {p \in Published(g_pages) :
     /\ p \div STAMPDB_PAGES_PER_SEG = st.head.addr \div STAMPDB_SEG_BYTES
     /\ p < PageOf(st.head.addr)}

\* C8: stampdb_open returns OK when the last block is torn or damaged (the
\* page the head is recovered to) or a footer is wiped, and every sample of
\* the blocks that precede the first invalid page of the head segment is
\* then yielded by a range query.
C8_OpenAfterDamage ==
  (/\ last = "open" /\ ~g_io /\ ~g_overflow
   /\ Damaged # {}
   /\ \A d \in Damaged : d = PageOf(s.head.addr) \/ IsFooterPage(d)) =>
     /\ rc = STAMPDB_OK
     /\ \A p \in BelowHead(s) : Returned(p)

\* first page of the segment of page p
SegFirstPage(p) == p - (p % STAMPDB_PAGES_PER_SEG)

\* page p holds a block of the series whose payload CRC does not verify
CrcBad(p, series) ==
  /\ codec_unpack_header(flash[p].hdr).ok
  /\ flash[p].hdr.h.series = series
  /\ ~PayloadCrcOk(flash[p].pay, flash[p].hdr.h)

\* page p holds a valid block of the series, and every page before it in its
\* segment has a valid header and a payload that verifies if it is of the
\* series: a scan of the segment from its first page gets to p
Reachable(p, series) ==
  /\ read_block(flash, p * STAMPDB_PAGE_BYTES).r = 0
  /\ flash[p].hdr.h.series = series
  /\ \A q \in SegFirstPage(p)..(p - 1) :
       codec_unpack_header(flash[q].hdr).ok /\ ~CrcBad(q, series)

\* the rows of the block on page p as stampdb_next decodes them
RowsOn(p) ==
  BlockRows(flash[p].hdr.h,
            codec_decode_payload(flash[p].pay.b, flash[p].hdr.h.dt_bits,
                                 flash[p].hdr.h.count),
            1, flash[p].hdr.h.t0_ms, p)

\* the rows of the block on page p with t0 <= ts <= t1 are among the yielded
YieldedFrom(p, q) ==
  \A j \in DOMAIN RowsOn(p) :
     (u32_le(q.t0, RowsOn(p)[j].ts) /\ u32_le(RowsOn(p)[j].ts, q.t1))
        => RowsOn(p)[j].ts \in TsOf(q.rows)

\* C9: an enumeration that meets a block of the queried series whose payload
\* CRC mismatches yields no row from that block or from later pages of that
\* segment, and goes on with the next segment: every block of the series that
\* a scan of its own segment gets to, in a segment the zone map admits, has
\* its rows in [t0, t1] yielded. Stated for windows with t0 <= t1.
C9_CrcErrorIsLocal ==
  (qres.kind = "range" /\ qres.crc > 0 /\ u32_le(qres.t0, qres.t1)) =>
     /\ \A i \in DOMAIN qres.rows :
          \A q \in SegFirstPage(qres.rows[i].page)..qres.rows[i].page :
             ~CrcBad(q, qres.series)
     /\ \A g \in Segs :
          ZoneHit(s.segs[g], qres) =>
             \A k \in 0..(STAMPDB_DATA_PAGES_PER_SEG - 1) :
                Reachable(PageOf(s.segs[g].addr_first) + k, qres.series) =>
                   YieldedFrom(PageOf(s.segs[g].addr_first) + k, qres)

\* C10: when a program primitive returns non-zero inside ring_write_block,
\* the stampdb_write or stampdb_flush call that published returns an error,
\* and the samples of the block stay in the builder.
C10_IoErrorReported ==
  (last \in {"write", "flush"} /\ ioerr) =>
     /\ rc # STAMPDB_OK
     /\ s.cur_count > 0

\* C11: stampdb_write with a series id of 256 or more, or with a null handle,
\* returns INVAL and changes nothing: the engine state (zone map, head,
\* counters, epoch, block builder), the GC quota statics, the clock, the
\* flash and the metadata files are what they were before the call.
C11_RejectedWriteNoEffect ==
  [][(\E a \in {<<"null", 1>>, <<"handle", STAMPDB_MAX_SERIES>>} :
         WriteRejected(a[1], a[2]))
       => /\ rc' = STAMPDB_EINVAL
          /\ g_reclaimed' = -1
          /\ UNCHANGED <<s, gc, now, flash, snap_a, snap_b, hint, g_cur, g_pages,
                         g_erases>>]_vars

\* a rejected write in a state where an accepted one would have run a GC
\* pass (no segment free) and where the block builder holds rows
C11_Witness ==
  /\ last = "write" /\ rc = STAMPDB_EINVAL
  /\ UsedSegs(s) = Segs /\ s.cur_count > 0

\* data pages of the segment the head is in
HeadSegPages(st) ==
  {PageOf(align_down(st.head.addr, STAMPDB_SEG_BYTES)) + k :
     k \in 0..(STAMPDB_DATA_PAGES_PER_SEG - 1)}

\* a torn page: neither erased nor a block whose CRCs verify
Torn(p) == flash[p] # ErasedPage /\ read_block(flash, p * STAMPDB_PAGE_BYTES).r # 0

\* C12: recovery_truncations is incremented only when recovery drops a torn
\* page: after an open of a store that was written and flushed without any
\* fault, whose head segment holds valid blocks followed by erased pages
\* only, recovery_truncations is 0.
C12_TruncationOnlyOnTorn ==
  (last = "open" /\ Clean /\ g_flushed # {} /\ \A p \in HeadSegPages(s) : ~Torn(p))
     => s.recovery_truncations = 0

\* C13: sector erases are rate limited: any three successive erases of 4 KiB
\* sectors, whether issued by a GC pass or by a segment rotation, span at
\* least 1000 ms of platform_millis time, so that no rolling window of
\* 1000 ms holds more than 2 of them.
C13_EraseRateLimited ==
  Len(g_erases) >= 3 => g_erases[Len(g_erases)] - g_erases[Len(g_erases) - 2] >= 1000

\* segments of the ring that hold no block
FreeSegs(st) == SegsOf(st) \ UsedSegs(st)

\* C14: after any stampdb_write that returns OK in a run without faults, at
\* least one segment of the ring holds no block (its zone-map entry is
\* invalid or has block_count = 0), whatever the number of segments.
C14_OneSegmentFree ==
  (last = "write" /\ rc = STAMPDB_OK /\ Clean) => FreeSegs(s) # {}

\* a step in which stampdb_write accepted its arguments and returned
AcceptedWrite == last' = "write" /\ nwrites' = nwrites + 1

\* fewer than 10%, fewer than 5% of the segments are free
FreeBelow10(st) == Cardinality(FreeSegs(st)) * 10 < st.seg_count
FreeBelow5(st) == Cardinality(FreeSegs(st)) * 20 < st.seg_count

\* the counters of a write that found the ring in state st
WarnBusyCounted(st, st2) ==
  /\ st2.gc_warn_events = st.gc_warn_events + (IF FreeBelow10(st) THEN 1 ELSE 0)
  /\ st2.gc_busy_events = st.gc_busy_events + (IF FreeBelow5(st) THEN 1 ELSE 0)

\* C15 as stated: on each write that accepts its arguments, gc_warn_events is
\* incremented exactly when fewer than 10% of the segments are free,
\* gc_busy_events is incremented and the oldest segment reclaimed exactly
\* when fewer than 5% are free, and with at least 10% free GC erases nothing.
C15_ReclaimBelow5 ==
  [][AcceptedWrite =>
       /\ WarnBusyCounted(s, s')
       /\ g_reclaimed' = (IF FreeBelow5(s) THEN OldestIdx(s) ELSE -1)]_vars

\* C15, amended: on each write that accepts its arguments, gc_warn_events is
\* incremented exactly when fewer than 10% of the segments are free,
\* gc_busy_events is incremented exactly when fewer than 5% are free, and the
\* oldest segment is reclaimed exactly when fewer than 10% are free; with at
\* least 10% free GC erases nothing.
C15_ReclaimBelow10 ==
  [][AcceptedWrite =>
       /\ WarnBusyCounted(s, s')
       /\ g_reclaimed' = (IF FreeBelow10(s) THEN OldestIdx(s) ELSE -1)]_vars

\* a write on the ring of GcSegCount segments has reclaimed a segment with
\* one segment free, which is between 5% and 10%: warned, never busy
C15_Witness ==
  /\ last = "write" /\ s.seg_count = GcSegCount
  /\ g_reclaimed # -1 /\ s.gc_warn_events > 0 /\ s.gc_busy_events = 0

\* the pages of segment i, footer page included
PagesOfSeg(i) ==
  {i * STAMPDB_PAGES_PER_SEG + k : k \in 0..(STAMPDB_PAGES_PER_SEG - 1)}

\* timestamps the writer had published on the pages of segment i
SamplesOfSeg(i) == UNION {TsOf(g_pages[p].rows) : p \in PagesOfSeg(i)}

\* a step of stampdb_write whose GC pass reclaimed a segment and which went
\* on to stage its row without closing a block, so that the reclamation is
\* all it did to the ring
ReclaimOnly ==
  /\ AcceptedWrite /\ g_reclaimed' # -1
  /\ s'.blocks_written = s.blocks_written /\ nfaults' = nfaults

\* C16: reclamation takes a segment with the smallest sequence number among
\* the segments that hold blocks, erases it and clears its zone-map entry;
\* afterwards no query returns a sample that was stored in it, and the
\* flash pages and zone-map entries of every other segment are unchanged.
C16_ReclaimOldestOnly ==
  [][ReclaimOnly =>
       /\ g_reclaimed' \in UsedSegs(s)
       /\ \A j \in UsedSegs(s) : s.segs[g_reclaimed'].seg_seqno <= s.segs[j].seg_seqno
       /\ \A p \in PagesOfSeg(g_reclaimed') : flash'[p] = ErasedPage
       /\ s'.segs[g_reclaimed'].block_count = 0
       /\ s'.segs[g_reclaimed'].series_bitmap = {}
       /\ \A p \in DOMAIN flash \ PagesOfSeg(g_reclaimed') : flash'[p] = flash[p]
       /\ \A j \in SegsOf(s) \ {g_reclaimed'} : s'.segs[j] = s.segs[j]
       /\ \A series \in Series, win \in Windows :
            TsOf(stampdb_next(s', flash', series, win[1], win[2]).rows)
              \cap SamplesOfSeg(g_reclaimed') = {}]_vars

\* a write has reclaimed one of two used segments, the one it reclaimed held
\* samples, and it only staged its row
C16_Witness ==
  /\ last = "write" /\ Clean /\ g_reclaimed # -1 /\ s.cur_count >= 2
  /\ Cardinality(UsedSegs(s)) = 1 /\ s.seg_count = 2

\* the valid records among the two snapshot slots
ValidSnaps(a, b) == {sl.snap : sl \in {x \in {a, b} : x.k = "valid"}}

\* what meta_load_snapshot returns for the slots a and b
Loaded(a, b) == meta_load_snapshot([snap_a |-> a, snap_b |-> b])

\* C17: meta_load_snapshot returns the valid record with the larger
\* seg_seq_head of the slots A and B; after every successful
\* stampdb_snapshot_save it returns the record that save has written, no
\* other call than a save changes the slots, and stampdb_open takes head
\* number, tail and epoch from the record it returns.
C17_LatestSnapshotLoaded ==
  [][/\ \A r \in ValidSnaps(snap_a', snap_b') :
          /\ Loaded(snap_a', snap_b').rc = 0
          /\ Loaded(snap_a', snap_b').snap \in ValidSnaps(snap_a', snap_b')
          /\ Loaded(snap_a', snap_b').snap.seg_seq_head >= r.seg_seq_head
     /\ (last' = "snapshot" /\ rc' = STAMPDB_OK) =>
          /\ Loaded(snap_a', snap_b').rc = 0
          /\ Loaded(snap_a', snap_b').snap.seg_seq_head = s.head.seg_seqno
          /\ Loaded(snap_a', snap_b').snap.head_addr = s.head.addr
          /\ Loaded(snap_a', snap_b').snap.epoch_id = s.epoch_id
     /\ \/ last' = "snapshot"
        \/ \E cut \in {"tmp", "removed", "renamed"} : SnapshotSaveCut(cut)
        \/ UNCHANGED <<snap_a, snap_b>>
     /\ (last' = "open" /\ Loaded(snap_a, snap_b).rc = 0) =>
          /\ s'.head.seg_seqno = Loaded(snap_a, snap_b).snap.seg_seq_head
          /\ s'.tail_seqno = Loaded(snap_a, snap_b).snap.seg_seq_tail
          /\ s'.epoch_id = Loaded(snap_a, snap_b).snap.epoch_id]_vars

\* the database was opened from the newer of two valid snapshots, the one in
\* slot B
C17_Witness ==
  /\ last = "open" /\ snap_a.k = "valid" /\ snap_b.k = "valid"
  /\ snap_b.snap.seg_seq_head > snap_a.snap.seg_seq_head
  /\ s.head.seg_seqno = snap_b.snap.seg_seq_head

\* C18: once a snapshot save has completed, a power cut at any point of a
\* later save leaves at least one valid snapshot record, so that
\* meta_load_snapshot succeeds at the next open.
C18_SnapshotSurvivesCut ==
  [][((\E cut \in {"tmp", "removed", "renamed"} : SnapshotSaveCut(cut)) /\ nsnaps >= 1)
       => Loaded(snap_a', snap_b').rc = 0]_vars

\* head-hint records an open may find: none, or a valid record that names
\* the start of the ring, a page inside the second segment, the last page
\* of the ring or an address past the ring, with a low or a high sequence
\* number
HintChoices ==
  {HintNone} \cup
  {[k |-> "valid", addr |-> a, seq |-> q] :
     a \in {0, STAMPDB_SEG_BYTES + STAMPDB_PAGE_BYTES,
            SEG_COUNT * STAMPDB_SEG_BYTES - STAMPDB_PAGE_BYTES,
            SEG_COUNT * STAMPDB_SEG_BYTES},
     q \in {1, 4}}

\* the state stampdb_open recovers from the flash and the snapshot slots of
\* this state when it finds the head hint h and the workspace residue
OpenedWith(h, residue) ==
  stampdb_open([World(NoFault) EXCEPT !.hint = h], residue).s

\* C19: the head hint is advisory: whatever head-hint record an open finds,
\* with the same flash and the same snapshot slots it recovers the same head
\* address, page index, head sequence number and zone map.
C19_HintAdvisory ==
  [][last' = "open" =>
       \E residue \in {ZeroSegs, s.segs} : \A h \in HintChoices :
          /\ OpenedWith(h, residue).head = s'.head
          /\ OpenedWith(h, residue).segs = s'.segs]_vars

\* an open without snapshot has recovered a head in a ring that holds
\* flushed data, and a valid hint inside the ring names another address
C19_Witness ==
  /\ last = "open" /\ Loaded(snap_a, snap_b).rc # 0 /\ g_flushed # {}
  /\ s.head.addr > 0
  /\ \E h \in HintChoices :
       h.k = "valid" /\ h.addr < s.seg_count * STAMPDB_SEG_BYTES /\ h.addr # s.head.addr

\* the segment of the head, and the footer page of segment i
HeadSeg(st) == st.head.addr \div STAMPDB_SEG_BYTES
FooterPage(i) == PageOf(FooterAddr(i * STAMPDB_SEG_BYTES))

\* segment i has been sealed: each of its data pages holds a block the
\* writer published
Sealed(i) == \A p \in PagesOfSeg(i) \ {FooterPage(i)} : g_pages[p] # NoGhost

\* C20: in a run without faults, whenever the database is open, after a
\* write, a rotation, a GC pass or a recovery, the footer page of the head
\* segment is erased, and a segment whose footer page is not erased has been
\* sealed.
C20_HeadFooterErased ==
  (mode = "open" /\ Clean) =>
     /\ flash[FooterPage(HeadSeg(s))] = ErasedPage
     /\ \A i \in SegsOf(s) : flash[FooterPage(i)] # ErasedPage => Sealed(i)

\* a is not after b in the order of timestamps modulo 2^32
WrapLe(a, b) == u32_sub(b, a)[1] < W16 \div 2

\* segments of the ring of this flash, and the data pages of segment i that
\* hold a valid block
RingSegs == DOMAIN ZeroSegs
ValidPages(i) ==
  {p \in PagesOfSeg(i) \ {FooterPage(i)} :
     read_block(flash, p * STAMPDB_PAGE_BYTES).r = 0}
FirstPage(i) == CHOOSE p \in ValidPages(i) : \A q \in ValidPages(i) : p <= q
LastPage(i) == CHOOSE p \in ValidPages(i) : \A q \in ValidPages(i) : p >= q

\* first and last sample time of the block the writer published on page p
FirstTsOn(p) == g_pages[p].rows[1].ts
LastTsOn(p) == g_pages[p].rows[Len(g_pages[p].rows)].ts

\* the footer of segment i agrees with the blocks of the segment
FooterAgrees(i, f) ==
  /\ f.block_count = Cardinality(ValidPages(i))
  /\ f.series_bitmap = {flash[p].hdr.h.series : p \in ValidPages(i)}
  /\ ValidPages(i) # {} =>
       /\ WrapLe(f.t_min, LastTsOn(LastPage(i)))
       /\ WrapLe(FirstTsOn(FirstPage(i)), f.t_max)

C22_BlockFitsPayload ==
  \A p \in DOMAIN flash :
    flash[p].hdr.k = "hdr" =>
      /\ flash[p].hdr.h.count \in 1..MAX_ROWS
      /\ flash[p].hdr.h.count * (flash[p].hdr.h.dt_bits \div 8)
           + flash[p].hdr.h.count * 2 <= STAMPDB_PAYLOAD_BYTES

FooterSeqs(fl, i) ==
  IF read_footer(fl, i * STAMPDB_SEG_BYTES).rc = 0
  THEN {read_footer(fl, i * STAMPDB_SEG_BYTES).f.seg_seqno} ELSE {}

\* a step in which a write or a flush sealed the head segment and rotated
Rotated ==
  /\ mode = "open" /\ last' \in {"write", "flush"}
  /\ s'.head.seg_seqno = s.head.seg_seqno + 1

\* C24: in a run without faults, the footer a rotation writes carries the
\* head sequence number, and that number is strictly greater than the number
\* of every footer already on flash; no two segments on flash have verifying
\* footers with the same sequence number. This covers rotations after a
\* reopen from a snapshot or from footers.
C24_SeqnoMonotonic ==
  [][(nfaults' = 0 /\ ~g_overflow') =>
       /\ Rotated => \A i \in RingSegs : \A q \in FooterSeqs(flash, i) :
                       q < s.head.seg_seqno
       /\ \A i, j \in RingSegs :
            i # j => FooterSeqs(flash', i) \cap FooterSeqs(flash', j) = {}]_vars

\* sequence numbers of the segments that hold data, by the zone map
DataSeqs(st) ==
  {st.segs[i].seg_seqno :
     i \in {j \in DOMAIN st.segs : st.segs[j].valid /\ st.segs[j].block_count > 0}}

\* C25: while the database is open in a run without faults, tail_seqno never
\* exceeds the head sequence number and, when some segment holds data, it is
\* the smallest sequence number among the segments that hold data.
C25_TailIsOldest ==
  (mode = "open" /\ Clean) =>
     /\ s.tail_seqno <= s.head.seg_seqno
     /\ DataSeqs(s) # {} =>
          /\ s.tail_seqno \in DataSeqs(s)
          /\ \A q \in DataSeqs(s) : s.tail_seqno <= q

\* timestamps a range query over the whole axis or a latest query yields
VisibleTs(st, fl, series) ==
  TsOf(stampdb_next(st, fl, series, U32_ZERO, U32_MAX).rows)
    \cup (IF stampdb_query_latest(st, fl, series).rc = STAMPDB_OK
          THEN {stampdb_query_latest(st, fl, series).ts} ELSE {})

\* timestamps of the samples published on the pages the writer programmed in
\* this step
NewlyPublishedTs ==
  UNION {TsOf(g_pages'[p].rows) :
           p \in {q \in DOMAIN g_pages' : g_pages'[q] # g_pages[q]}}

\* a write or a flush that returned OK in a run without faults
CleanWriterStep ==
  /\ mode = "open" /\ last' \in {"write", "flush"} /\ rc' = STAMPDB_OK
  /\ nfaults' = 0 /\ ~g_overflow'

\* C26: a sample that is still in the block builder is yielded by no range
\* query and no latest query; stampdb_close leaves flash and metadata as they
\* are and the reopened engine has an empty builder; a sample leaves the
\* builder only by being published on a page, and is visible from then on;
\* a flush empties the builder, a write for another series publishes all the
\* samples staged before it, the builder never holds a full block, and a
\* write that does none of these publishes nothing.
C26_StagedNotVisible ==
  [][/\ (mode' = "open" /\ nfaults' = 0 /\ ~g_overflow') =>
          \A series \in Series : TsOf(g_cur') \cap VisibleTs(s', flash', series) = {}
     /\ last' = "close" => UNCHANGED <<flash, snap_a, snap_b, hint>>
     /\ last' = "open" => s'.cur_count = 0
     /\ CleanWriterStep =>
          /\ (TsOf(g_cur) \ TsOf(g_cur')) \subseteq NewlyPublishedTs
          /\ s.cur_count > 0 =>
               (TsOf(g_cur) \ TsOf(g_cur')) \subseteq VisibleTs(s', flash', s.cur_series)
          /\ last' = "flush" => s'.cur_count = 0 /\ g_cur' = <<>>
          /\ (s.cur_count > 0 /\ s'.cur_count > 0 /\ s'.cur_series # s.cur_series)
               => TsOf(g_cur) \cap TsOf(g_cur') = {}
          /\ s'.cur_count < MAX_ROWS /\ Len(g_cur') = s'.cur_count
          /\ Len(g_cur') = Len(g_cur) + 1 => NewlyPublishedTs = {}]_vars

\* segments whose footer verifies
VerifiedFooterSegs == {i \in RingSegs : FooterSeqs(flash, i) # {}}

\* the segment with the largest footer sequence number
NewestFooterSeg ==
  CHOOSE i \in VerifiedFooterSegs :
    \A j \in VerifiedFooterSegs :
       read_footer(flash, j * STAMPDB_SEG_BYTES).f.seg_seqno
         <= read_footer(flash, i * STAMPDB_SEG_BYTES).f.seg_seqno

\* index, inside segment i, of its first data page that is not a valid
\* block; the number of data pages when all of them are valid
FirstFreeIndex(i) ==
  CHOOSE k \in 0..STAMPDB_DATA_PAGES_PER_SEG :
    /\ \A m \in 0..(k - 1) : (i * STAMPDB_PAGES_PER_SEG + m) \in ValidPages(i)
    /\ k < STAMPDB_DATA_PAGES_PER_SEG
         => (i * STAMPDB_PAGES_PER_SEG + k) \notin ValidPages(i)

\* C27: an open that finds no snapshot but at least one footer that verifies
\* puts the head into the segment after the one with the largest footer
\* sequence number, with that number plus one as head sequence number, and
\* head.page_index is the index of the first page of the head segment that is
\* not a valid block.
C27_HeadAfterNewestFooter ==
  (last = "open" /\ rc = STAMPDB_OK /\ Loaded(snap_a, snap_b).rc # 0
     /\ VerifiedFooterSegs # {}) =>
       /\ HeadSeg(s) = (NewestFooterSeg + 1) % s.seg_count
       /\ s.head.seg_seqno
            = read_footer(flash, NewestFooterSeg * STAMPDB_SEG_BYTES).f.seg_seqno + 1
       /\ s.head.page_index = FirstFreeIndex(HeadSeg(s))

\* C28: while the database is open in a run without faults, the page the
\* next publish programs is an erased data page: head.page_index is the index
\* of a data page, head.addr is the address of that page of a segment inside
\* the ring, and the page at head.addr is erased (it holds no published
\* block, no torn payload and no footer).
C28_HeadOnErasedDataPage ==
  (mode = "open" /\ Clean) =>
     /\ s.head.page_index \in 0..(STAMPDB_DATA_PAGES_PER_SEG - 1)
     /\ HeadSeg(s) \in RingSegs
     /\ s.head.addr
          = HeadSeg(s) * STAMPDB_SEG_BYTES + s.head.page_index * STAMPDB_PAGE_BYTES
     /\ flash[PageOf(s.head.addr)] = ErasedPage

\* a write or a flush that returned after it had published a block
PublishStep ==
  /\ mode = "open" /\ mode' = "open" /\ last' \in {"write", "flush"}
  /\ ~g_overflow'
  /\ s'.blocks_written = s.blocks_written + 1

\* a publish on the last data page of the head segment
SealStep ==
  /\ PublishStep
  /\ s.head.page_index = STAMPDB_DATA_PAGES_PER_SEG - 1

TsSeq(rows) == [i \in DOMAIN rows |-> rows[i].ts]

\* the pages that hold a block the writer published and nothing has damaged
IntactBlocks ==
  {p \in Published(g_pages) \ Damaged :
     read_block(flash, p * STAMPDB_PAGE_BYTES).r = 0}

\* a write that accepted its sample and returned OK in a run without faults
\* (the sample is the last one of the schedule, and it is either staged or
\* was published by this very call because it filled the block)
CleanWrite ==
  /\ CleanWriterStep /\ last' = "write" /\ nwrites' = nwrites + 1

\* the block on page p holds the rows the ghost recorded for it: one series,
\* the header's, in the order of the writes, t0 the first timestamp
BlockAsWritten(p) ==
  /\ flash[p].hdr.h.series = g_pages[p].series
  /\ \A i \in DOMAIN g_pages[p].rows : g_pages[p].rows[i].series = g_pages[p].series
  /\ TsSeq(RowsOn(p)) = TsSeq(g_pages[p].rows)
  /\ flash[p].hdr.h.t0_ms = g_pages[p].rows[1].ts
  /\ codec_decode_payload(flash[p].pay.b, flash[p].hdr.h.dt_bits,
                          flash[p].hdr.h.count).deltas[1] = U32_ZERO

\* C30: in a run without faults every intact published block holds, under the
\* series of its header, samples that were all written for that one series,
\* in the order they were written, with t0 the timestamp of the first of them
\* and first delta 0; the samples in the builder are all of the builder's
\* series, in the order of the writes; a write for a series other than the
\* one of the open builder publishes the open block with exactly the staged
\* samples, and the new sample starts a builder of its own series with t0
\* equal to its timestamp and first delta 0.
C30_OneSeriesInOrder ==
  [][(nfaults' = 0 /\ ~g_overflow') =>
       /\ \A p \in IntactBlocks' :
            (flash'[p] # flash[p] \/ g_pages'[p] # g_pages[p]) => BlockAsWritten(p)'
       /\ mode' = "open" =>
            \A i \in DOMAIN g_cur' : g_cur'[i].series = s'.cur_series
       /\ CleanWrite =>
            /\ s'.cur_count > 0 =>
                 /\ g_cur'[Len(g_cur')].ts = TsAt(nwrites')
                 /\ s'.cur_count > 1 => SubSeq(g_cur', 1, Len(g_cur)) = g_cur
                 /\ s'.cur_count = 1 => /\ s'.cur_t0 = TsAt(nwrites')
                                        /\ s'.stg_deltas = <<U32_ZERO>>
            /\ (s.cur_count > 0 /\ s'.cur_count > 0 /\ s'.cur_series # s.cur_series) =>
                 /\ s'.blocks_written = s.blocks_written + 1
                 /\ \A p \in DOMAIN g_pages' :
                      g_pages'[p] \notin {g_pages[p], NoGhost}
                         => g_pages'[p] = [series |-> s.cur_series, rows |-> g_cur]
                 /\ s'.cur_count = 1]_vars

\* C30 is exercised: a write for another series has just published a block of
\* two samples of series 2, written after a block of series 1, and a query
\* would decode them in the order they were written
C30_Witness ==
  /\ Clean /\ last = "write" /\ s.cur_count = 1 /\ s.cur_series = 1
  /\ \E p \in IntactBlocks :
       /\ g_pages[p].series = 2 /\ Len(g_pages[p].rows) = 2
       /\ BlockAsWritten(p)
       /\ p > 0 /\ (p - 1) \in IntactBlocks /\ g_pages[p - 1].series = 1
       /\ s.blocks_written = p + 1

\* deltas between consecutive timestamps of a sequence of rows, as written
WrittenDeltas(rows) ==
  {u32_sub(rows[i].ts, rows[i - 1].ts) : i \in 2..Len(rows)}

\* C31: in a run without faults every intact published block has dt_bits 16
\* when one of the deltas between its consecutive samples, as they were
\* written, exceeds 255, and dt_bits 8 otherwise.
C31_WidthByMaxDelta ==
  Clean => \A p \in IntactBlocks :
     flash[p].hdr.h.dt_bits =
        IF \E d \in WrittenDeltas(g_pages[p].rows) : u32_gt(d, U32(0, 255))
        THEN 16 ELSE 8

\* C31 is exercised at the limit: an intact block of two samples that are
\* 256 ms apart has the width 16, and another intact block has the width 8
C31_Witness ==
  /\ Clean
  /\ \E p, q \in IntactBlocks :
       /\ flash[p].hdr.h.dt_bits = 8
       /\ WrittenDeltas(g_pages[q].rows) = {U32(0, 256)}
       /\ flash[q].hdr.h.dt_bits = 16

\* segment i holds, in an intact block of the series, a sample in [t0, t1]
\* under wrap ordering
SegHolds(i, series, t0, t1) ==
  \E p \in IntactBlocks \cap PagesOfSeg(i) :
     /\ flash[p].hdr.h.series = series
     /\ \E j \in DOMAIN RowsOn(p) : ts_in_range(RowsOn(p)[j].ts, t0, t1)

\* window bounds: the ends of the time axis and the timestamps on flash
WindowEnds ==
  {U32_ZERO, U32_MAX} \cup
  UNION {TsOf(RowsOn(p)) : p \in IntactBlocks}

\* C32: while the database is open in a run without faults, the zone-map test
\* of the iterator lets through every segment that holds, in an intact block
\* of the queried series, a sample whose timestamp is in the query window
\* under wrap ordering.
C32_ZoneSkipSound ==
  (mode = "open" /\ Clean) =>
     \A i \in RingSegs : \A series \in Series : \A t0, t1 \in WindowEnds :
        SegHolds(i, series, t0, t1)
           => ZoneHit(s.segs[i], [series |-> series, t0 |-> t0, t1 |-> t1])

\* position of an iterator in the ring, in the order of the scan
ItPos(it) == it.seg_idx * (STAMPDB_DATA_PAGES_PER_SEG + 1) + it.page_in_seg

\* every load_next_block call of an enumeration that starts at it visits at
\* most seg_count * data pages + 1 pages and never moves the position back, a
\* call that finds a block moves it forward, and the enumeration ends after
\* at most fuel blocks
RECURSIVE DrainTerminates(_, _, _, _)
DrainTerminates(st, fl, it, fuel) ==
  Bind(load_next_block(st, fl, it), LAMBDA it1 :
    /\ it1.visited <= st.seg_count * STAMPDB_DATA_PAGES_PER_SEG + 1
    /\ ItPos(it1) >= ItPos(it)
    /\ it1.found =>
         /\ ItPos(it1) > ItPos(it)
         /\ Len(it1.rows) \in 1..MAX_ROWS
         /\ fuel > 0
         /\ DrainTerminates(st, fl, it1, fuel - 1))

\* C33: whatever the flash holds and whatever the zone map says, an
\* enumeration of either series over any of the query windows ends: every
\* call visits at most N * data pages + 1 pages, the position (seg_idx,
\* page_in_seg) never moves backwards and moves forward with every block
\* found, and at most N * data pages blocks are found before a call returns
\* false.
C33_IterationTerminates ==
  mode = "open" =>
     \A series \in Series : \A win \in Windows :
        DrainTerminates(s, flash, stampdb_query_begin(series, win[1], win[2]),
                        s.seg_count * STAMPDB_DATA_PAGES_PER_SEG)

\* C33 is exercised: an enumeration has yielded rows of blocks in two
\* segments of a flash on which a page was damaged from outside
C33_Witness ==
  /\ qres.kind = "range" /\ g_corrupt # {}
  /\ \E i, j \in DOMAIN qres.rows :
       qres.rows[i].page \div STAMPDB_PAGES_PER_SEG
         # qres.rows[j].page \div STAMPDB_PAGES_PER_SEG

\* a write that accepted its sample after an earlier write of the same
\* session: that write left its sample in the builder or in a published block
LaterWrite ==
  /\ mode = "open" /\ last' = "write" /\ rc' = STAMPDB_OK
  /\ nwrites' = nwrites + 1
  /\ s.cur_count > 0 \/ s.blocks_written > 0

\* the timestamp of the write is below the previously observed one by more
\* than 2^31
WrapsBack ==
  /\ u32_lt(s'.last_ts_observed, s.last_ts_observed)
  /\ u32_gt(u32_sub(s.last_ts_observed, s'.last_ts_observed), U32_HALF)

\* C34: from the second write of a session on, a write raises epoch_id by
\* exactly one when its timestamp is below the previously observed timestamp
\* by more than 2^31 ms, and leaves it alone otherwise; also when no block
\* has been published yet.
C34_EpochBump ==
  [][LaterWrite =>
       s'.epoch_id = s.epoch_id + (IF WrapsBack THEN 1 ELSE 0)]_vars

\* the slot meta_save_snapshot writes a record to: A when seg_seq_head is
\* odd, B when it is even
SlotByParity(snap) == IF snap.seg_seq_head % 2 = 1 THEN "a" ELSE "b"

\* C35: a stampdb_snapshot_save that returns OK writes, into the slot chosen
\* by the parity of seg_seq_head, a record with the head address, the head
\* sequence number and the epoch of the call, and with the smallest sequence
\* number of the segments that hold blocks (the head sequence number when
\* none does) as tail; the other slot, the ring state (head, zone map,
\* builder) and the data flash are unchanged.
C35_SnapshotFrame ==
  [][(last' = "snapshot" /\ rc' = STAMPDB_OK /\ mode = "open" /\ g_cut' = g_cut
        /\ nsnaps' = nsnaps + 1) =>
       /\ s' = s /\ flash' = flash /\ g_cur' = g_cur /\ hint' = hint
       /\ \E rec \in {[epoch_id |-> s.epoch_id,
                       seg_seq_head |-> s.head.seg_seqno,
                       seg_seq_tail |->
                          IF DataSeqs(s) = {} THEN s.head.seg_seqno
                          ELSE CHOOSE q \in DataSeqs(s) : \A r \in DataSeqs(s) : q <= r,
                       head_addr |-> s.head.addr]} :
            IF SlotByParity(rec) = "a"
            THEN snap_a' = SlotOf(rec) /\ snap_b' = snap_b
            ELSE snap_b' = SlotOf(rec) /\ snap_a' = snap_a]_vars

\* C35 is exercised: with data in two segments of sequence numbers 1 and 2 a
\* snapshot was saved to slot B after one had been saved to slot A, and the
\* record in B has tail 1, head 2 and the head address of the ring
C35_Witness ==
  /\ last = "snapshot" /\ rc = STAMPDB_OK /\ nfaults = 0
  /\ snap_a.k = "valid" /\ snap_a.snap.seg_seq_head = 1
  /\ snap_b.k = "valid" /\ snap_b.snap.seg_seq_head = 2
  /\ snap_b.snap.seg_seq_tail = 1 /\ snap_b.snap.head_addr = s.head.addr
  /\ DataSeqs(s) = {1, 2}
  /\ s.cur_count > 0

\* the timestamp stampdb_query_latest would rebuild from the block on page p:
\* t0 plus the wrapping sum of the stored deltas
LatestTsOn(p) ==
  LatestRow(flash[p].hdr.h, flash[p].pay.b, p, FALSE).ts

\* C36: in a run without faults the timestamps the iterator and
\* stampdb_query_latest rebuild from an intact published block (t0 plus the
\* wrapping sum of the stored deltas) are the timestamps that were passed to
\* stampdb_write for its samples, in their order, whatever the distance
\* between consecutive samples.
C36_TimestampFidelity ==
  Clean => \A p \in IntactBlocks :
     /\ TsSeq(RowsOn(p)) = TsSeq(g_pages[p].rows)
     /\ LatestTsOn(p) = g_pages[p].rows[Len(g_pages[p].rows)].ts

\* C37: the segment that the garbage-collection pass of a write reclaims is
\* never the segment that holds the head, whatever the number of segments of
\* the ring.
C37_GcSparesHead ==
  [][(mode = "open" /\ nwrites' = nwrites + 1 /\ g_reclaimed' # -1)
       => g_reclaimed' # HeadSeg(s)]_vars

\* series of the valid blocks in the data pages of segment i
SeriesInSeg(i) == {flash[p].hdr.h.series : p \in ValidPages(i)}

\* C38: while the database is open in a run without faults, every segment
\* whose data pages hold valid blocks has a valid zone-map entry whose
\* block_count and series bitmap are the number and the series of those
\* blocks, and the entry of a segment without valid blocks reports none.
C38_ZoneMapMirrorsFlash ==
  (mode = "open" /\ Clean) =>
     \A i \in RingSegs :
        IF ValidPages(i) = {}
          THEN s.segs[i].valid => s.segs[i].block_count = 0
          ELSE /\ s.segs[i].valid
               /\ s.segs[i].block_count = Cardinality(ValidPages(i))
               /\ s.segs[i].series_bitmap = SeriesInSeg(i)

\* what a zone map says: an entry that is not valid says nothing more
ZoneView(st) ==
  [i \in DOMAIN st.segs |->
     IF st.segs[i].valid THEN st.segs[i] ELSE [valid |-> FALSE]]

\* two recovered states agree on head, tail, epoch and zone map
SameRecovery(a, b) ==
  /\ a.head = b.head /\ a.tail_seqno = b.tail_seqno /\ a.epoch_id = b.epoch_id
  /\ a.seg_count = b.seg_count /\ ZoneView(a) = ZoneView(b)

BesidesCrcErrors(st) == [st EXCEPT !.crc_errors = 0]

\* C40: a range query (begin, next until exhausted, end) and a latest query
\* program and erase no flash, write no snapshot and no head hint, and
\* leave the head, the tail, the zone map, the block builder, the epoch and
\* every counter except crc_errors as they were; crc_errors does not
\* decrease in a query, nor in any other call of an open session.
C40_QueriesReadOnly ==
  [][/\ last' \in {"query", "latest"} =>
          /\ flash' = flash /\ snap_a' = snap_a /\ snap_b' = snap_b /\ hint' = hint
          /\ g_erases' = g_erases /\ g_pages' = g_pages /\ g_cur' = g_cur
          /\ gc' = gc /\ mode' = mode
          /\ BesidesCrcErrors(s') = BesidesCrcErrors(s)
          /\ s'.crc_errors = s.crc_errors + qres'.crc
     /\ (mode = "open" /\ mode' = "open") => s'.crc_errors >= s.crc_errors]_vars

\* a range query has met a payload CRC error while the block builder held
\* staged rows and the ring held published blocks
C40_Witness ==
  /\ last = "query" /\ qres.crc > 0 /\ s.crc_errors > 0
  /\ g_cur # <<>> /\ s.cur_count > 0
  /\ \E i \in RingSegs : s.segs[i].valid /\ s.segs[i].block_count > 0
====
